---- MODULE Spec2Model ----
(***************************************************************************)
(* Model of the filesystem plugin's command layer                          *)
(* (plugins/fs/src/commands.rs): every command resolves its path,          *)
(* authorizes it against the composite scope, runs the native call and     *)
(* registers or looks up resources in the webview's resource table.        *)
(***************************************************************************)
EXTENDS Integers, Sequences, FiniteSets, TLC

VARIABLES
    fs,        \* the native filesystem: path -> node
    allowed,   \* app.fs_scope().allowed : Vec<PathBuf>
    denied,    \* app.fs_scope().denied  : Vec<PathBuf>
    table,     \* webview.resources_table(): rid -> resource
    next_rid,  \* the table's next id
    closed,    \* history: ids whose close has succeeded
    last,      \* the command that has just returned: its events in order, its result
    ncalls,    \* the number of commands the caller has issued
    pc,        \* concurrent callers: where each one is in its command
    tlock,     \* the holder of the resource table's guard, 0 when it is free
    heap,      \* the resources alive: rid -> the object, its references, its mutex
    released,  \* history: the rids whose file descriptor was released, in order
    rp,        \* a resolve_path call in progress: its position and the lists it has cloned
    answers,   \* history: the responses of the cursor calls of concurrent callers, in order
    plugin,    \* window-state Builder: state_flags, denylist, skip_initial_state
    running,   \* the application is running (between setup and RunEvent::Exit)
    windows,   \* label -> the window: its properties and whether its events are tracked
    cache,     \* WindowStateCache: label -> WindowState
    disk       \* the state file: <<>> when there is none, else <<label -> WindowState>>

\* the state no file command on a path or a handle touches
beyond == <<rp, answers, plugin, running, windows, cache, disk>>

\* the state of the window-state plugin
wsvars == <<plugin, running, windows, cache, disk>>

vars == <<fs, allowed, denied, table, next_rid, closed, last, ncalls,
          pc, tlock, heap, released, beyond>>

----------------------------------------------------------------------------
(* Bounds of the model *)

\* longest baseline allow list / deny list a scope mutation may build
MaxScope == 2
\* highest resource id the table hands out
MaxRid == 2
\* longest file content
MaxLen == 1
\* number of commands in a run of the path commands
MaxCalls == 2
\* number of callers that run handle commands concurrently
MaxThreads == 2
\* number of commands the concurrent callers issue altogether
MaxInvokes == 4

----------------------------------------------------------------------------
(* Paths: a path is the sequence of its components, "/" being the root *)

HOME_U == <<"/", "home", "u">>
DOCS   == <<"/", "home", "u", "docs">>
A_TXT  == <<"/", "home", "u", "docs", "a.txt">>
B_TXT  == <<"/", "home", "u", "docs", "b.txt">>
SECRET == <<"/", "home", "u", "docs", "secret">>
X_TXT  == <<"/", "home", "u", "docs", "secret", "x.txt">>
LINK   == <<"/", "home", "u", "docs", "link">>
ETC    == <<"/", "etc">>
PASSWD == <<"/", "etc", "passwd">>
TMP    == <<"/", "tmp">>

FsPaths == {<<"/">>, <<"/", "home">>, HOME_U, DOCS, A_TXT, B_TXT, SECRET, X_TXT,
            LINK, ETC, PASSWD, TMP}

\* search: the caller may traverse the node (the x permission of a directory)
NoNode == [kind |-> "none", data |-> <<>>, target |-> <<>>, search |-> TRUE]
DirNode == [kind |-> "dir", data |-> <<>>, target |-> <<>>, search |-> TRUE]
FileNode(d) == [kind |-> "file", data |-> d, target |-> <<>>, search |-> TRUE]
LinkNode(t) == [kind |-> "symlink", data |-> <<>>, target |-> t, search |-> TRUE]
\* a pipe, a socket, a device
OtherNode == [kind |-> "other", data |-> <<>>, target |-> <<>>, search |-> TRUE]

IsPrefix(s, t) == Len(s) <= Len(t) /\ SubSeq(t, 1, Len(s)) = s

Parent(p) == SubSeq(p, 1, Len(p) - 1)

\* Path::is_absolute
IsAbsolute(p) == Len(p) > 0 /\ p[1] = "/"

----------------------------------------------------------------------------
(* resolve_path *)

\* file_url_to_safe_pathbuf: a path whose first component is "file:" is parsed
\* as a URL <<"file:", host, segment, ...>>; Url::to_file_path fails on a
\* URL that names a remote host.
file_url_to_safe_pathbuf(path) ==
    IF Len(path) > 0 /\ path[1] = "file:"
    THEN IF Len(path) >= 2 /\ path[2] = ""
         THEN [ok |-> TRUE, path |-> <<"/">> \o SubSeq(path, 3, Len(path))]
         ELSE [ok |-> FALSE, path |-> <<>>]
    ELSE [ok |-> TRUE, path |-> path]

\* The base-directory collaborator (app.path()): the concrete directory of a
\* symbolic base directory.
BaseDirPath(base_dir) ==
    CASE base_dir = "Home" -> HOME_U
      [] base_dir = "Temp" -> TMP
      [] OTHER -> <<>>

\* app.path().resolve(&path, base_dir): the path pushed onto the directory
\* (PathBuf::push: an absolute path replaces the directory).
PathResolve(path, base_dir) ==
    IF IsAbsolute(path) THEN path ELSE BaseDirPath(base_dir) \o path

\* The pattern matcher collaborator: a scope entry admits the path it names
\* and everything below it.
Matches(pattern, path) == IsPrefix(pattern, path)

\* Scope::is_allowed: no forbidden pattern matches and some allowed one does.
AnyMatch(patterns, path) == \E i \in 1..Len(patterns) : Matches(patterns[i], path)

is_allowed(allow, deny, path) ==
    IF AnyMatch(deny, path) THEN FALSE ELSE AnyMatch(allow, path)

\* the allow list resolve_path hands to Scope::new
ScopeAllow(base_allowed, global_scope, command_scope) ==
    base_allowed \o global_scope.allows \o command_scope.allows

\* the deny list resolve_path hands to Scope::new
ScopeDenyFromAllows(base_denied, global_scope, command_scope) ==
    base_denied \o global_scope.denies \o command_scope.allows

ScopeDenyDropsGlobal(base_denied, global_scope, command_scope) ==
    base_denied \o command_scope.denies

ScopeDeny(base_denied, global_scope, command_scope) ==
    base_denied \o global_scope.denies \o command_scope.denies

\* resolve_path: the URL conversion, the base-directory join, the composite
\* scope built from the three sources as they are now, and the admission.
resolve_pathStartupScope(path, base_dir, global_scope, command_scope) ==
    LET u == file_url_to_safe_pathbuf(path) IN
    IF ~u.ok
    THEN [ok |-> FALSE, err |-> "InvalidPath", path |-> <<>>, checked |-> FALSE,
          allow |-> <<>>, deny |-> <<>>]
    ELSE LET p == IF base_dir # "None" THEN PathResolve(u.path, base_dir) ELSE u.path
             allow == ScopeAllow(<<DOCS>>, global_scope, command_scope)
             deny == ScopeDeny(<<SECRET>>, global_scope, command_scope)
             admitted == is_allowed(allow, deny, p)
         IN [ok |-> admitted, err |-> IF admitted THEN "" ELSE "PathForbidden",
             path |-> p, checked |-> TRUE, allow |-> allow, deny |-> deny]

resolve_pathAllowWins(path, base_dir, global_scope, command_scope) ==
    LET u == file_url_to_safe_pathbuf(path) IN
    IF ~u.ok
    THEN [ok |-> FALSE, err |-> "InvalidPath", path |-> <<>>, checked |-> FALSE,
          allow |-> <<>>, deny |-> <<>>]
    ELSE LET p == IF base_dir # "None" THEN PathResolve(u.path, base_dir) ELSE u.path
             allow == ScopeAllow(allowed, global_scope, command_scope)
             deny == ScopeDeny(denied, global_scope, command_scope)
             admitted == AnyMatch(allow, p)
         IN [ok |-> admitted, err |-> IF admitted THEN "" ELSE "PathForbidden",
             path |-> p, checked |-> TRUE, allow |-> allow, deny |-> deny]

resolve_path(path, base_dir, global_scope, command_scope) ==
    LET u == file_url_to_safe_pathbuf(path) IN
    IF ~u.ok
    THEN [ok |-> FALSE, err |-> "InvalidPath", path |-> <<>>, checked |-> FALSE,
          allow |-> <<>>, deny |-> <<>>]
    ELSE LET p == IF base_dir # "None" THEN PathResolve(u.path, base_dir) ELSE u.path
             allow == ScopeAllow(allowed, global_scope, command_scope)
             deny == ScopeDeny(denied, global_scope, command_scope)
             admitted == is_allowed(allow, deny, p)
         IN [ok |-> admitted, err |-> IF admitted THEN "" ELSE "PathForbidden",
             path |-> p, checked |-> TRUE, allow |-> allow, deny |-> deny]

----------------------------------------------------------------------------
(* The native filesystem (std::fs), on a fixed universe of paths *)

NodeAt(f, p) == IF p \in DOMAIN f THEN f[p] ELSE NoNode

\* Path resolution of the operating system: every component that is a
\* symbolic link is replaced by its target.
RECURSIVE Walk(_, _, _, _)
Walk(f, done, rest, fuel) ==
    IF rest = <<>> THEN done
    ELSE LET q == Append(done, Head(rest)) IN
         IF NodeAt(f, q).kind = "symlink" /\ fuel > 0
         THEN Walk(f, <<>>, NodeAt(f, q).target \o Tail(rest), fuel - 1)
         ELSE Walk(f, q, Tail(rest), fuel)

\* every directory above q may be traversed (EACCES otherwise)
Searchable(f, q) == \A i \in 1..(Len(q) - 1) : NodeAt(f, SubSeq(q, 1, i)).search

\* where a call is left when a directory on its way may not be traversed:
\* no object
NoAccess == <<"EACCES">>

\* the object a link-following call would reach, permissions aside
Resolved(f, p) == Walk(f, <<>>, p, Cardinality(DOMAIN f))

\* the object a link-following call reaches
Canon(f, p) == IF Searchable(f, Resolved(f, p)) THEN Resolved(f, p) ELSE NoAccess

\* the object a call that does not follow the last component reaches
LCanon(f, p) ==
    IF Len(p) <= 1 THEN p ELSE Append(Canon(f, Parent(p)), p[Len(p)])

Children(f, q) == {c \in DOMAIN f : Len(c) > 1 /\ Parent(c) = q /\ f[c].kind # "none"}

Descendants(f, q) == {c \in DOMAIN f : IsPrefix(q, c) /\ c # q /\ f[c].kind # "none"}

Newline == 10

\* std::str::from_utf8 succeeds (no byte of the model above 127 is part of
\* a valid sequence)
IsUtf8(data) == \A i \in 1..Len(data) : data[i] < 128

\* OpenOptions::open. opts = [read, write, append, truncate, create, create_new]
OpenValid(o) ==
    /\ (o.read \/ o.write \/ o.append)
    /\ (~o.write /\ ~o.append) => ~(o.truncate \/ o.create \/ o.create_new)
    /\ o.append => ~(o.truncate /\ ~o.create_new)

NativeOpen(f, p, o) ==
    LET q == IF o.create_new THEN LCanon(f, p) ELSE Canon(f, p)
        n == NodeAt(f, q)
        fail == [ok |-> FALSE, fs |-> f, obj |-> <<>>]
    IN IF ~OpenValid(o) THEN fail
       ELSE IF n.kind = "none"
       THEN IF (o.create \/ o.create_new) /\ q \in DOMAIN f
               /\ NodeAt(f, Parent(q)).kind = "dir"
            THEN [ok |-> TRUE, fs |-> [f EXCEPT ![q] = FileNode(<<>>)], obj |-> q]
            ELSE fail
       ELSE IF o.create_new THEN fail
       ELSE IF n.kind = "dir"
       THEN IF o.write \/ o.append THEN fail
            ELSE [ok |-> TRUE, fs |-> f, obj |-> q]
       ELSE [ok |-> TRUE,
             fs |-> IF o.truncate THEN [f EXCEPT ![q].data = <<>>] ELSE f,
             obj |-> q]

ReadOnly == [read |-> TRUE, write |-> FALSE, append |-> FALSE, truncate |-> FALSE,
             create |-> FALSE, create_new |-> FALSE]

\* File::create
CreateOpts == [read |-> FALSE, write |-> TRUE, append |-> FALSE, truncate |-> TRUE,
               create |-> TRUE, create_new |-> FALSE]

\* OpenOptions::new().write(true)
WriteOnly == [read |-> FALSE, write |-> TRUE, append |-> FALSE, truncate |-> FALSE,
              create |-> FALSE, create_new |-> FALSE]

\* std::fs::read / read_to_string: open read-only and read to the end
NativeRead(f, p) ==
    LET q == Canon(f, p) IN
    IF NodeAt(f, q).kind = "file"
    THEN [ok |-> TRUE, data |-> f[q].data, obj |-> q]
    ELSE [ok |-> FALSE, data |-> <<>>, obj |-> q]

\* std::fs::metadata (follows links) and std::fs::symlink_metadata
NativeMetadata(f, p) ==
    LET q == Canon(f, p) IN
    [ok |-> NodeAt(f, q).kind # "none", node |-> NodeAt(f, q), obj |-> q]

NativeSymlinkMetadata(f, p) ==
    LET q == LCanon(f, p) IN
    [ok |-> NodeAt(f, q).kind # "none", node |-> NodeAt(f, q), obj |-> q]

\* std::fs::copy: the source opened for reading (a regular file), the
\* destination opened with create and truncate, then the bytes copied.
NativeCopy(f, from, to) ==
    LET qf == Canon(f, from) IN
    IF NodeAt(f, qf).kind # "file"
    THEN [ok |-> FALSE, fs |-> f, obj |-> qf, obj2 |-> <<>>]
    ELSE LET n == NativeOpen(f, to, CreateOpts) IN
         IF ~n.ok \/ NodeAt(n.fs, n.obj).kind # "file"
         THEN [ok |-> FALSE, fs |-> f, obj |-> qf, obj2 |-> n.obj]
         ELSE [ok |-> TRUE, fs |-> [n.fs EXCEPT ![n.obj].data = n.fs[qf].data],
               obj |-> qf, obj2 |-> n.obj]

\* mkdir(2): the last component is not followed; a name outside the universe
\* of paths cannot be created.
MkdirOne(f, p) ==
    LET q == LCanon(f, p) IN
    IF NodeAt(f, q).kind # "none" THEN [ok |-> FALSE, err |-> "Exists", fs |-> f, obj |-> q]
    ELSE IF NodeAt(f, Parent(q)).kind = "none"
    THEN [ok |-> FALSE, err |-> "NotFound", fs |-> f, obj |-> q]
    ELSE IF NodeAt(f, Parent(q)).kind # "dir" \/ q \notin DOMAIN f
    THEN [ok |-> FALSE, err |-> "Other", fs |-> f, obj |-> q]
    ELSE [ok |-> TRUE, err |-> "", fs |-> [f EXCEPT ![q] = DirNode], obj |-> q]

IsDir(f, p) == NodeAt(f, Canon(f, p)).kind = "dir"

\* DirBuilder::create_dir_all
RECURSIVE MkdirAll(_, _)
MkdirAll(f, p) ==
    LET m == MkdirOne(f, p) IN
    IF m.ok THEN m
    ELSE IF m.err # "NotFound"
    THEN (IF IsDir(f, p) THEN [m EXCEPT !.ok = TRUE, !.err = ""] ELSE m)
    ELSE IF Len(p) <= 1 THEN m
    ELSE LET up == MkdirAll(f, Parent(p)) IN
         IF ~up.ok THEN [up EXCEPT !.obj = m.obj]
         ELSE LET again == MkdirOne(up.fs, p) IN
              IF again.ok \/ ~IsDir(up.fs, p) THEN again
              ELSE [again EXCEPT !.ok = TRUE, !.err = ""]

\* DirBuilder::create
NativeMkdir(f, p, recursive) == IF recursive THEN MkdirAll(f, p) ELSE MkdirOne(f, p)

\* std::fs::remove_file (unlink): never follows the last component
NativeRemoveFile(f, p) ==
    LET q == LCanon(f, p) IN
    IF NodeAt(f, q).kind \in {"file", "symlink", "other"}
    THEN [ok |-> TRUE, fs |-> [f EXCEPT ![q] = NoNode], obj |-> q, gone |-> {q}]
    ELSE [ok |-> FALSE, fs |-> f, obj |-> q, gone |-> {}]

\* std::fs::remove_dir (rmdir): an empty directory only
NativeRemoveDir(f, p) ==
    LET q == LCanon(f, p) IN
    IF NodeAt(f, q).kind = "dir" /\ Children(f, q) = {} /\ Len(q) > 1
    THEN [ok |-> TRUE, fs |-> [f EXCEPT ![q] = NoNode], obj |-> q, gone |-> {q}]
    ELSE [ok |-> FALSE, fs |-> f, obj |-> q, gone |-> {}]

\* std::fs::remove_dir_all: a symlink is unlinked, a directory is removed
\* with everything below it, anything else is not a directory.
\* (NativeRemoveDirAllFollows: the last component followed)
NativeRemoveDirAllFollows(f, p) ==
    LET q == Canon(f, p)
        sub == Descendants(f, q) \cup {q}
    IN IF NodeAt(f, q).kind = "dir" /\ Len(q) > 1
       THEN [ok |-> TRUE, fs |-> [x \in DOMAIN f |-> IF x \in sub THEN NoNode ELSE f[x]],
             obj |-> q, gone |-> sub]
       ELSE [ok |-> FALSE, fs |-> f, obj |-> q, gone |-> {}]

NativeRemoveDirAll(f, p) ==
    LET q == LCanon(f, p)
        sub == Descendants(f, q) \cup {q}
    IN IF NodeAt(f, q).kind = "symlink"
       THEN [ok |-> TRUE, fs |-> [f EXCEPT ![q] = NoNode], obj |-> q, gone |-> {q}]
       ELSE IF NodeAt(f, q).kind = "dir" /\ Len(q) > 1
       THEN [ok |-> TRUE, fs |-> [x \in DOMAIN f |-> IF x \in sub THEN NoNode ELSE f[x]],
             obj |-> q, gone |-> sub]
       ELSE [ok |-> FALSE, fs |-> f, obj |-> q, gone |-> {}]

\* std::fs::rename: neither last component is followed; a directory moves
\* with its subtree; the destination is replaced.
NativeRename(f, old, new) ==
    LET qo == LCanon(f, old)
        qn == LCanon(f, new)
        no == NodeAt(f, qo)
        nn == NodeAt(f, qn)
        sub == Descendants(f, qo) \cup {qo}
        Image(x) == qn \o SubSeq(x, Len(qo) + 1, Len(x))
        fail == [ok |-> FALSE, fs |-> f, obj |-> qo, obj2 |-> qn, gone |-> {}]
        same == [ok |-> TRUE, fs |-> f, obj |-> qo, obj2 |-> qn, gone |-> {}]
    IN IF no.kind = "none" \/ NodeAt(f, Parent(qn)).kind # "dir" THEN fail
       ELSE IF qo = qn THEN same
       ELSE IF \E x \in sub : Image(x) \notin DOMAIN f THEN fail
       ELSE IF no.kind = "dir"
       THEN IF IsPrefix(qo, qn) \/ ~(nn.kind = "none" \/ (nn.kind = "dir" /\ Children(f, qn) = {}))
            THEN fail
            ELSE [ok |-> TRUE,
                  fs |-> [x \in DOMAIN f |->
                            IF \E y \in sub : Image(y) = x
                            THEN f[CHOOSE y \in sub : Image(y) = x]
                            ELSE IF x \in sub THEN NoNode ELSE f[x]],
                  obj |-> qo, obj2 |-> qn, gone |-> {}]
       ELSE IF nn.kind = "dir" THEN fail
       ELSE [ok |-> TRUE, fs |-> [f EXCEPT ![qn] = no, ![qo] = NoNode],
             obj |-> qo, obj2 |-> qn,
             gone |-> IF nn.kind = "none" THEN {} ELSE {qn}]

\* File::set_len: cut, or extended with zero bytes
SetLen(data, len) ==
    IF len <= Len(data) THEN SubSeq(data, 1, len)
    ELSE data \o [i \in 1..(len - Len(data)) |-> 0]

\* std::fs::read_dir with, per entry, path.metadata() (following) and
\* symlink_metadata (not following); an entry whose metadata() fails fails
\* the listing. (NativeReadDirOneMetadata: every flag from metadata())
NativeReadDirOneMetadata(f, p) ==
    LET q == Canon(f, p)
        kids == Children(f, q)
        Md(c) == NativeMetadata(f, Append(p, c[Len(c)]))
    IN IF NodeAt(f, q).kind # "dir" \/ \E c \in kids : ~Md(c).ok
       THEN [ok |-> FALSE, entries |-> {}, obj |-> q]
       ELSE [ok |-> TRUE, obj |-> q,
             entries |-> {[name |-> c[Len(c)],
                           is_directory |-> Md(c).node.kind = "dir",
                           is_file |-> Md(c).node.kind = "file",
                           is_symlink |-> Md(c).node.kind = "symlink"] : c \in kids}]

NativeReadDir(f, p) ==
    LET q == Canon(f, p)
        kids == Children(f, q)
        Md(c) == NativeMetadata(f, Append(p, c[Len(c)]))
    IN IF NodeAt(f, q).kind # "dir" \/ \E c \in kids : ~Md(c).ok
       THEN [ok |-> FALSE, entries |-> {}, obj |-> q]
       ELSE [ok |-> TRUE, obj |-> q,
             entries |-> {[name |-> c[Len(c)],
                           is_directory |-> Md(c).node.kind = "dir",
                           is_file |-> Md(c).node.kind = "file",
                           is_symlink |-> f[c].kind = "symlink"] : c \in kids}]

----------------------------------------------------------------------------
(* The resource table collaborator (webview.resources_table()) *)

\* StdFileResource::new(file) / StdLinesResource::new(lines): the open file
\* description behind the handle. An unlinked file lives on in its handles
\* (orphan, with its bytes in data). path, allow and deny are history: the
\* path the file was opened with and the scope that admitted it; returned is
\* history too: what a line cursor has delivered so far, in order.
Resource(kind, r, obj, o) ==
    [kind |-> kind, path |-> r.path, allow |-> r.allow, deny |-> r.deny,
     obj |-> obj, pos |-> 0,
     read |-> o.read, write |-> o.write \/ o.append, append |-> o.append,
     buf |-> <<>>, orphan |-> FALSE, data |-> <<>>, returned |-> <<>>]

TableAdd(tbl, rid, res) ==
    [x \in DOMAIN tbl \cup {rid} |-> IF x = rid THEN res ELSE tbl[x]]

\* get::<T>(rid): the entry, if there is one and it is of the kind asked for
TableGet(tbl, rid, kind) ==
    IF rid \in DOMAIN tbl /\ tbl[rid].kind = kind
    THEN [ok |-> TRUE, res |-> tbl[rid]]
    ELSE [ok |-> FALSE, res |-> <<>>]

\* close(rid): the entry removed, or an error when there is none
TableClose(tbl, rid) ==
    IF rid \in DOMAIN tbl
    THEN [ok |-> TRUE, table |-> [x \in DOMAIN tbl \ {rid} |-> tbl[x]]]
    ELSE [ok |-> FALSE, table |-> tbl]

\* The open files of unlinked paths keep their bytes.
Orphaned(tbl, f, gone) ==
    [x \in DOMAIN tbl |->
        IF ~tbl[x].orphan /\ tbl[x].obj \in gone
        THEN [tbl[x] EXCEPT !.orphan = TRUE, !.data = NodeAt(f, tbl[x].obj).data]
        ELSE tbl[x]]

\* The open files of renamed paths follow their file.
Followed(tbl, qo, qn) ==
    [x \in DOMAIN tbl |->
        IF ~tbl[x].orphan /\ IsPrefix(qo, tbl[x].obj)
        THEN [tbl[x] EXCEPT !.obj = qn \o SubSeq(tbl[x].obj, Len(qo) + 1, Len(tbl[x].obj))]
        ELSE tbl[x]]

----------------------------------------------------------------------------
(* What a command leaves behind: its events in order and its result *)

NoScope == [allows |-> <<>>, denies |-> <<>>]

\* the path arguments of a command, each with its base directory
Arg(path, base_dir) == [path |-> path, base_dir |-> base_dir]

Args1(path, base_dir) == <<Arg(path, base_dir)>>

Args2(path, base_dir, path2, base_dir2) == <<Arg(path, base_dir), Arg(path2, base_dir2)>>

\* options.as_ref().and_then(|o| o.base.base_dir)
OptBase(options) == IF options.some THEN options.base_dir ELSE "None"

OptArgs(path, options) ==
    <<[path |-> path, base_dir |-> OptBase(options), options |-> options]>>

\* the arguments of write_file and write_text_file
WriteArgs(path, data, options) ==
    <<[path |-> path, base_dir |-> OptBase(options), options |-> options, data |-> data]>>

\* the arguments of truncate: len (negative for None) and options.base_dir
TruncateArgs(path, base_dir, len) ==
    <<[path |-> path, base_dir |-> base_dir, len |-> len]>>

\* the arguments of remove: options.base.base_dir and options.recursive
RemoveArgs(path, base_dir, recursive) ==
    <<[path |-> path, base_dir |-> base_dir, recursive |-> recursive]>>

ScopeEv(r) ==
    [ev |-> "scope", call |-> "is_allowed", path |-> r.path, obj |-> <<>>,
     ok |-> r.ok, allow |-> r.allow, deny |-> r.deny]

\* is_allowed runs only when the path has been resolved
ResolveTrace(r) == IF r.checked THEN <<ScopeEv(r)>> ELSE <<>>

NativeEv(call, path, obj, ok) ==
    [ev |-> "native", call |-> call, path |-> path, obj |-> obj,
     ok |-> ok, allow |-> <<>>, deny |-> <<>>]

Returned(op, args, g, c, rid, trace, result, val) ==
    last' = [op |-> op, args |-> args, g |-> g, c |-> c, rid |-> rid, trace |-> trace,
             result |-> result, val |-> val]

\* an early return: nothing but the result
Failed(op, args, g, c, rid, trace, result) ==
    /\ Returned(op, args, g, c, rid, trace, result, <<>>)
    /\ UNCHANGED <<fs, allowed, denied, table, next_rid, closed>>

----------------------------------------------------------------------------
(* Commands that take a path *)

createRegistersOnFailure(path, base_dir, g, c) ==
    LET r == resolve_path(path, base_dir, g, c) IN
    IF ~r.ok THEN Failed("create", Args1(path, base_dir), g, c, 0, ResolveTrace(r), r.err)
    ELSE LET n == NativeOpen(fs, r.path, CreateOpts)
             tr == ResolveTrace(r) \o <<NativeEv("File::create", r.path, n.obj, n.ok)>>
         IN /\ fs' = n.fs
            /\ table' = TableAdd(table, next_rid, Resource("file", r, n.obj, CreateOpts))
            /\ next_rid' = next_rid + 1
            /\ Returned("create", Args1(path, base_dir), g, c, 0, tr,
                        IF n.ok THEN "Ok" ELSE "Io", IF n.ok THEN next_rid ELSE <<>>)
            /\ UNCHANGED <<allowed, denied, closed>>

create(path, base_dir, g, c) ==
    LET r == resolve_path(path, base_dir, g, c) IN
    IF ~r.ok THEN Failed("create", Args1(path, base_dir), g, c, 0, ResolveTrace(r), r.err)
    ELSE LET n == NativeOpen(fs, r.path, CreateOpts)
             tr == ResolveTrace(r) \o <<NativeEv("File::create", r.path, n.obj, n.ok)>>
         IN IF ~n.ok THEN Failed("create", Args1(path, base_dir), g, c, 0, tr, "Io")
            ELSE /\ fs' = n.fs
                 /\ table' = TableAdd(table, next_rid, Resource("file", r, n.obj, CreateOpts))
                 /\ next_rid' = next_rid + 1
                 /\ Returned("create", Args1(path, base_dir), g, c, 0, tr, "Ok", next_rid)
                 /\ UNCHANGED <<allowed, denied, closed>>

\* options = [some, base_dir, read, write, append, truncate, create, create_new]
OpenOptsOf(options) ==
    IF options.some
    THEN [read |-> options.read, write |-> options.write, append |-> options.append,
          truncate |-> options.truncate, create |-> options.create,
          create_new |-> options.create_new]
    ELSE ReadOnly

openUnchecked(path, options, g, c) ==
    LET r == resolve_path(path, OptBase(options), g, c)
    IN
    IF ~r.checked THEN Failed("open", OptArgs(path, options), g, c, 0, ResolveTrace(r), r.err)
    ELSE LET o == OpenOptsOf(options)
             n == NativeOpen(fs, r.path, o)
             tr == ResolveTrace(r) \o <<NativeEv("OpenOptions::open", r.path, n.obj, n.ok)>>
         IN IF ~n.ok THEN Failed("open", OptArgs(path, options), g, c, 0, tr, "Io")
            ELSE /\ fs' = n.fs
                 /\ table' = TableAdd(table, next_rid, Resource("file", r, n.obj, o))
                 /\ next_rid' = next_rid + 1
                 /\ Returned("open", OptArgs(path, options), g, c, 0, tr, "Ok", next_rid)
                 /\ UNCHANGED <<allowed, denied, closed>>

openRecyclesId(path, options, g, c) ==
    LET r == resolve_path(path, OptBase(options), g, c)
        free == CHOOSE x \in 1..next_rid :
                    x \notin DOMAIN table /\ \A y \in 1..(x - 1) : y \in DOMAIN table
    IN
    IF ~r.ok THEN Failed("open", OptArgs(path, options), g, c, 0, ResolveTrace(r), r.err)
    ELSE LET o == OpenOptsOf(options)
             n == NativeOpen(fs, r.path, o)
             tr == ResolveTrace(r) \o <<NativeEv("OpenOptions::open", r.path, n.obj, n.ok)>>
         IN IF ~n.ok THEN Failed("open", OptArgs(path, options), g, c, 0, tr, "Io")
            ELSE /\ fs' = n.fs
                 /\ table' = TableAdd(table, free, Resource("file", r, n.obj, o))
                 /\ next_rid' = IF free = next_rid THEN next_rid + 1 ELSE next_rid
                 /\ Returned("open", OptArgs(path, options), g, c, 0, tr, "Ok", free)
                 /\ UNCHANGED <<allowed, denied, closed>>

open(path, options, g, c) ==
    LET r == resolve_path(path, OptBase(options), g, c)
    IN
    IF ~r.ok THEN Failed("open", OptArgs(path, options), g, c, 0, ResolveTrace(r), r.err)
    ELSE LET o == OpenOptsOf(options)
             n == NativeOpen(fs, r.path, o)
             tr == ResolveTrace(r) \o <<NativeEv("OpenOptions::open", r.path, n.obj, n.ok)>>
         IN IF ~n.ok THEN Failed("open", OptArgs(path, options), g, c, 0, tr, "Io")
            ELSE /\ fs' = n.fs
                 /\ table' = TableAdd(table, next_rid, Resource("file", r, n.obj, o))
                 /\ next_rid' = next_rid + 1
                 /\ Returned("open", OptArgs(path, options), g, c, 0, tr, "Ok", next_rid)
                 /\ UNCHANGED <<allowed, denied, closed>>

copy_fileChecksLate(from_path, from_base, to_path, to_base, g, c) ==
    LET rf == resolve_path(from_path, from_base, g, c)
        rt == resolve_path(to_path, to_base, g, c)
        n == NativeCopy(fs, rf.path, rt.path)
        tr == ResolveTrace(rf)
              \o <<NativeEv("fs::copy", rf.path, n.obj, n.ok),
                   NativeEv("fs::copy", rt.path, n.obj2, n.ok)>>
              \o ResolveTrace(rt)
    IN IF ~rf.ok THEN Failed("copy_file", Args2(from_path, from_base, to_path, to_base),
            g, c, 0, ResolveTrace(rf), rf.err)
       ELSE IF ~n.ok THEN Failed("copy_file", Args2(from_path, from_base, to_path, to_base),
               g, c, 0, tr, "Io")
       ELSE /\ fs' = n.fs
            /\ Returned("copy_file", Args2(from_path, from_base, to_path, to_base),
                    g, c, 0, tr, IF rt.ok THEN "Ok" ELSE rt.err, <<>>)
            /\ UNCHANGED <<allowed, denied, table, next_rid, closed>>

copy_file(from_path, from_base, to_path, to_base, g, c) ==
    LET rf == resolve_path(from_path, from_base, g, c) IN
    IF ~rf.ok THEN Failed("copy_file", Args2(from_path, from_base, to_path, to_base),
            g, c, 0, ResolveTrace(rf), rf.err)
    ELSE LET rt == resolve_path(to_path, to_base, g, c) IN
         IF ~rt.ok
         THEN Failed("copy_file", Args2(from_path, from_base, to_path, to_base),
                 g, c, 0, ResolveTrace(rf) \o ResolveTrace(rt), rt.err)
         ELSE LET n == NativeCopy(fs, rf.path, rt.path)
                  tr == ResolveTrace(rf) \o ResolveTrace(rt)
                        \o <<NativeEv("fs::copy", rf.path, n.obj, n.ok),
                             NativeEv("fs::copy", rt.path, n.obj2, n.ok)>>
              IN IF ~n.ok THEN Failed("copy_file", Args2(from_path, from_base, to_path, to_base),
                      g, c, 0, tr, "Io")
                 ELSE /\ fs' = n.fs
                      /\ Returned("copy_file", Args2(from_path, from_base, to_path, to_base),
                              g, c, 0, tr, "Ok", <<>>)
                      /\ UNCHANGED <<allowed, denied, table, next_rid, closed>>

\* mode is masked to the permission bits, which the model does not hold
mkdir(path, base_dir, recursive, g, c) ==
    LET r == resolve_path(path, base_dir, g, c) IN
    IF ~r.ok THEN Failed("mkdir", Args1(path, base_dir), g, c, 0, ResolveTrace(r), r.err)
    ELSE LET n == NativeMkdir(fs, r.path, recursive)
             tr == ResolveTrace(r) \o <<NativeEv("DirBuilder::create", r.path, n.obj, n.ok)>>
         IN IF ~n.ok
            THEN /\ fs' = n.fs
                 /\ Returned("mkdir", Args1(path, base_dir), g, c, 0, tr, "Io", <<>>)
                 /\ UNCHANGED <<allowed, denied, table, next_rid, closed>>
            ELSE /\ fs' = n.fs
                 /\ Returned("mkdir", Args1(path, base_dir), g, c, 0, tr, "Ok", <<>>)
                 /\ UNCHANGED <<allowed, denied, table, next_rid, closed>>

read_dir(path, base_dir, g, c) ==
    LET r == resolve_path(path, base_dir, g, c) IN
    IF ~r.ok THEN Failed("read_dir", Args1(path, base_dir), g, c, 0, ResolveTrace(r), r.err)
    ELSE LET n == NativeReadDir(fs, r.path)
             tr == ResolveTrace(r) \o <<NativeEv("fs::read_dir", r.path, n.obj, n.ok)>>
         IN IF ~n.ok THEN Failed("read_dir", Args1(path, base_dir), g, c, 0, tr, "Io")
            ELSE /\ Returned("read_dir", Args1(path, base_dir), g, c, 0, tr, "Ok", n.entries)
                 /\ UNCHANGED <<fs, allowed, denied, table, next_rid, closed>>

read_file(path, base_dir, g, c) ==
    LET r == resolve_path(path, base_dir, g, c) IN
    IF ~r.ok THEN Failed("read_file", Args1(path, base_dir), g, c, 0, ResolveTrace(r), r.err)
    ELSE LET n == NativeRead(fs, r.path)
             tr == ResolveTrace(r) \o <<NativeEv("fs::read", r.path, n.obj, n.ok)>>
         IN IF ~n.ok THEN Failed("read_file", Args1(path, base_dir), g, c, 0, tr, "Io")
            ELSE /\ Returned("read_file", Args1(path, base_dir), g, c, 0, tr, "Ok", n.data)
                 /\ UNCHANGED <<fs, allowed, denied, table, next_rid, closed>>

read_text_file(path, base_dir, g, c) ==
    LET r == resolve_path(path, base_dir, g, c) IN
    IF ~r.ok THEN Failed("read_text_file", Args1(path, base_dir), g, c, 0, ResolveTrace(r), r.err)
    ELSE LET n == NativeRead(fs, r.path)
             tr == ResolveTrace(r) \o <<NativeEv("fs::read_to_string", r.path, n.obj, n.ok)>>
         IN IF ~n.ok \/ ~IsUtf8(n.data) THEN Failed("read_text_file", Args1(path, base_dir), g, c, 0, tr, "Io")
            ELSE /\ Returned("read_text_file", Args1(path, base_dir), g, c, 0, tr, "Ok", n.data)
                 /\ UNCHANGED <<fs, allowed, denied, table, next_rid, closed>>

read_text_file_lines(path, base_dir, g, c) ==
    LET r == resolve_path(path, base_dir, g, c) IN
    IF ~r.ok THEN Failed("read_text_file_lines", Args1(path, base_dir), g, c, 0, ResolveTrace(r), r.err)
    ELSE LET n == NativeOpen(fs, r.path, ReadOnly)
             tr == ResolveTrace(r) \o <<NativeEv("File::open", r.path, n.obj, n.ok)>>
         IN IF ~n.ok THEN Failed("read_text_file_lines", Args1(path, base_dir), g, c, 0, tr, "Io")
            ELSE /\ table' = TableAdd(table, next_rid, Resource("lines", r, n.obj, ReadOnly))
                 /\ next_rid' = next_rid + 1
                 /\ Returned("read_text_file_lines", Args1(path, base_dir), g, c, 0, tr, "Ok", next_rid)
                 /\ UNCHANGED <<fs, allowed, denied, closed>>

\* remove: the unix build (a symlink is unlinked with remove_file)
\* (removeIgnoresRecursive: without the remove_dir_all branch)
removeIgnoresRecursive(path, base_dir, recursive, g, c) ==
    LET r == resolve_path(path, base_dir, g, c) IN
    IF ~r.ok THEN Failed("remove", RemoveArgs(path, base_dir, recursive), g, c, 0, ResolveTrace(r), r.err)
    ELSE LET md == NativeSymlinkMetadata(fs, r.path)
             tr0 == ResolveTrace(r)
                    \o <<NativeEv("fs::symlink_metadata", r.path, md.obj, md.ok)>>
         IN IF ~md.ok THEN Failed("remove", RemoveArgs(path, base_dir, recursive), g, c, 0, tr0, "Io")
            ELSE LET call == IF md.node.kind = "file" THEN "fs::remove_file"
                             ELSE IF md.node.kind = "symlink" THEN "fs::remove_file"
                             ELSE IF md.node.kind = "dir" THEN "fs::remove_dir"
                             ELSE "fs::remove_file"
                     n == CASE call = "fs::remove_file" -> NativeRemoveFile(fs, r.path)
                            [] call = "fs::remove_dir_all" -> NativeRemoveDirAll(fs, r.path)
                            [] call = "fs::remove_dir" -> NativeRemoveDir(fs, r.path)
                     tr == tr0 \o <<NativeEv(call, r.path, n.obj, n.ok)>>
                 IN IF ~n.ok THEN Failed("remove", RemoveArgs(path, base_dir, recursive), g, c, 0, tr, "Io")
                    ELSE /\ fs' = n.fs
                         /\ table' = Orphaned(table, fs, n.gone)
                         /\ Returned("remove", RemoveArgs(path, base_dir, recursive), g, c, 0, tr, "Ok", <<>>)
                         /\ UNCHANGED <<allowed, denied, next_rid, closed>>

remove(path, base_dir, recursive, g, c) ==
    LET r == resolve_path(path, base_dir, g, c) IN
    IF ~r.ok THEN Failed("remove", RemoveArgs(path, base_dir, recursive), g, c, 0, ResolveTrace(r), r.err)
    ELSE LET md == NativeSymlinkMetadata(fs, r.path)
             tr0 == ResolveTrace(r)
                    \o <<NativeEv("fs::symlink_metadata", r.path, md.obj, md.ok)>>
         IN IF ~md.ok THEN Failed("remove", RemoveArgs(path, base_dir, recursive), g, c, 0, tr0, "Io")
            ELSE LET call == IF md.node.kind = "file" THEN "fs::remove_file"
                             ELSE IF recursive THEN "fs::remove_dir_all"
                             ELSE IF md.node.kind = "symlink" THEN "fs::remove_file"
                             ELSE IF md.node.kind = "dir" THEN "fs::remove_dir"
                             ELSE "fs::remove_file"
                     n == CASE call = "fs::remove_file" -> NativeRemoveFile(fs, r.path)
                            [] call = "fs::remove_dir_all" -> NativeRemoveDirAll(fs, r.path)
                            [] call = "fs::remove_dir" -> NativeRemoveDir(fs, r.path)
                     tr == tr0 \o <<NativeEv(call, r.path, n.obj, n.ok)>>
                 IN IF ~n.ok THEN Failed("remove", RemoveArgs(path, base_dir, recursive), g, c, 0, tr, "Io")
                    ELSE /\ fs' = n.fs
                         /\ table' = Orphaned(table, fs, n.gone)
                         /\ Returned("remove", RemoveArgs(path, base_dir, recursive), g, c, 0, tr, "Ok", <<>>)
                         /\ UNCHANGED <<allowed, denied, next_rid, closed>>

rename(old_path, old_base, new_path, new_base, g, c) ==
    LET ro == resolve_path(old_path, old_base, g, c) IN
    IF ~ro.ok THEN Failed("rename", Args2(old_path, old_base, new_path, new_base),
            g, c, 0, ResolveTrace(ro), ro.err)
    ELSE LET rn == resolve_path(new_path, new_base, g, c) IN
         IF ~rn.ok
         THEN Failed("rename", Args2(old_path, old_base, new_path, new_base),
                 g, c, 0, ResolveTrace(ro) \o ResolveTrace(rn), rn.err)
         ELSE LET n == NativeRename(fs, ro.path, rn.path)
                  tr == ResolveTrace(ro) \o ResolveTrace(rn)
                        \o <<NativeEv("fs::rename", ro.path, n.obj, n.ok),
                             NativeEv("fs::rename", rn.path, n.obj2, n.ok)>>
              IN IF ~n.ok THEN Failed("rename", Args2(old_path, old_base, new_path, new_base),
                      g, c, 0, tr, "Io")
                 ELSE /\ fs' = n.fs
                      /\ table' = IF n.obj = n.obj2 THEN table
                                  ELSE Followed(Orphaned(table, fs, n.gone), n.obj, n.obj2)
                      /\ Returned("rename", Args2(old_path, old_base, new_path, new_base),
                              g, c, 0, tr, "Ok", <<>>)
                      /\ UNCHANGED <<allowed, denied, next_rid, closed>>

\* get_stat: the type flags and the size of the snapshot
get_stat(node) ==
    [is_file |-> node.kind = "file", is_directory |-> node.kind = "dir",
     is_symlink |-> node.kind = "symlink", size |-> Len(node.data)]

statNoFollow(path, base_dir, g, c) ==
    LET r == resolve_path(path, base_dir, g, c) IN
    IF ~r.ok THEN Failed("stat", Args1(path, base_dir), g, c, 0, ResolveTrace(r), r.err)
    ELSE LET n == NativeSymlinkMetadata(fs, r.path)
             tr == ResolveTrace(r) \o <<NativeEv("fs::metadata", r.path, n.obj, n.ok)>>
         IN IF ~n.ok THEN Failed("stat", Args1(path, base_dir), g, c, 0, tr, "Io")
            ELSE /\ Returned("stat", Args1(path, base_dir), g, c, 0, tr, "Ok", get_stat(n.node))
                 /\ UNCHANGED <<fs, allowed, denied, table, next_rid, closed>>

stat(path, base_dir, g, c) ==
    LET r == resolve_path(path, base_dir, g, c) IN
    IF ~r.ok THEN Failed("stat", Args1(path, base_dir), g, c, 0, ResolveTrace(r), r.err)
    ELSE LET n == NativeMetadata(fs, r.path)
             tr == ResolveTrace(r) \o <<NativeEv("fs::metadata", r.path, n.obj, n.ok)>>
         IN IF ~n.ok THEN Failed("stat", Args1(path, base_dir), g, c, 0, tr, "Io")
            ELSE /\ Returned("stat", Args1(path, base_dir), g, c, 0, tr, "Ok", get_stat(n.node))
                 /\ UNCHANGED <<fs, allowed, denied, table, next_rid, closed>>

lstat(path, base_dir, g, c) ==
    LET r == resolve_path(path, base_dir, g, c) IN
    IF ~r.ok THEN Failed("lstat", Args1(path, base_dir), g, c, 0, ResolveTrace(r), r.err)
    ELSE LET n == NativeSymlinkMetadata(fs, r.path)
             tr == ResolveTrace(r) \o <<NativeEv("fs::symlink_metadata", r.path, n.obj, n.ok)>>
         IN IF ~n.ok THEN Failed("lstat", Args1(path, base_dir), g, c, 0, tr, "Io")
            ELSE /\ Returned("lstat", Args1(path, base_dir), g, c, 0, tr, "Ok", get_stat(n.node))
                 /\ UNCHANGED <<fs, allowed, denied, table, next_rid, closed>>

\* len = -1 stands for None
truncateCreates(path, base_dir, len, g, c) ==
    LET r == resolve_path(path, base_dir, g, c) IN
    IF ~r.ok THEN Failed("truncate", TruncateArgs(path, base_dir, len), g, c, 0, ResolveTrace(r), r.err)
    ELSE LET n == NativeOpen(fs, r.path, [WriteOnly EXCEPT !.create = TRUE])
             tr == ResolveTrace(r) \o <<NativeEv("OpenOptions::open", r.path, n.obj, n.ok)>>
         IN IF ~n.ok THEN Failed("truncate", TruncateArgs(path, base_dir, len), g, c, 0, tr, "Io")
            ELSE /\ fs' = [n.fs EXCEPT ![n.obj].data = SetLen(@, IF len < 0 THEN 0 ELSE len)]
                 /\ Returned("truncate", TruncateArgs(path, base_dir, len), g, c, 0,
                             tr \o <<NativeEv("File::set_len", r.path, n.obj, TRUE)>>, "Ok", <<>>)
                 /\ UNCHANGED <<allowed, denied, table, next_rid, closed>>

truncate(path, base_dir, len, g, c) ==
    LET r == resolve_path(path, base_dir, g, c) IN
    IF ~r.ok THEN Failed("truncate", TruncateArgs(path, base_dir, len), g, c, 0, ResolveTrace(r), r.err)
    ELSE LET n == NativeOpen(fs, r.path, WriteOnly)
             tr == ResolveTrace(r) \o <<NativeEv("OpenOptions::open", r.path, n.obj, n.ok)>>
         IN IF ~n.ok THEN Failed("truncate", TruncateArgs(path, base_dir, len), g, c, 0, tr, "Io")
            ELSE /\ fs' = [n.fs EXCEPT ![n.obj].data = SetLen(@, IF len < 0 THEN 0 ELSE len)]
                 /\ Returned("truncate", TruncateArgs(path, base_dir, len), g, c, 0,
                             tr \o <<NativeEv("File::set_len", r.path, n.obj, TRUE)>>, "Ok", <<>>)
                 /\ UNCHANGED <<allowed, denied, table, next_rid, closed>>

\* Write::write at a position of a file: a gap is filled with zero bytes
WriteAt(old, pos, bytes) ==
    LET padded == IF pos <= Len(old) THEN SubSeq(old, 1, pos)
                  ELSE old \o [i \in 1..(pos - Len(old)) |-> 0]
    IN padded \o bytes \o SubSeq(old, pos + Len(bytes) + 1, Len(old))

\* options = [some, base_dir, append, create, create_new]
WriteOptsOfNoTruncate(options) ==
    IF options.some
    THEN [read |-> FALSE, write |-> TRUE, append |-> options.append,
          truncate |-> FALSE, create |-> options.create,
          create_new |-> options.create_new]
    ELSE [CreateOpts EXCEPT !.truncate = FALSE]

WriteOptsOfIgnoresCreateNew(options) ==
    IF options.some
    THEN [read |-> FALSE, write |-> TRUE, append |-> options.append,
          truncate |-> ~options.append, create |-> options.create,
          create_new |-> FALSE]
    ELSE CreateOpts

WriteOptsOfDropsAppend(options) ==
    IF options.some
    THEN [read |-> FALSE, write |-> TRUE, append |-> FALSE,
          truncate |-> ~options.append, create |-> options.create,
          create_new |-> options.create_new]
    ELSE CreateOpts

WriteOptsOf(options) ==
    IF options.some
    THEN [read |-> FALSE, write |-> TRUE, append |-> options.append,
          truncate |-> ~options.append, create |-> options.create,
          create_new |-> options.create_new]
    ELSE CreateOpts

write_file_innerOpensFirst(op, path, data, options, g, c) ==
    LET r == resolve_path(path, OptBase(options), g, c)
        o == WriteOptsOf(options)
        p == IF r.checked THEN r.path ELSE path
        n == NativeOpen(fs, p, o)
        tr == <<NativeEv("OpenOptions::open", p, n.obj, n.ok)>> \o ResolveTrace(r)
    IN
    IF ~n.ok THEN Failed(op, WriteArgs(path, data, options), g, c, 0, tr, IF r.ok THEN "Io" ELSE r.err)
    ELSE IF ~r.ok
    THEN /\ fs' = n.fs
         /\ Returned(op, WriteArgs(path, data, options), g, c, 0, tr, r.err, <<>>)
         /\ UNCHANGED <<allowed, denied, table, next_rid, closed>>
    ELSE LET old == n.fs[n.obj].data
             now == WriteAt(old, IF o.append THEN Len(old) ELSE 0, data)
         IN /\ fs' = [n.fs EXCEPT ![n.obj].data = now]
            /\ Returned(op, WriteArgs(path, data, options), g, c, 0,
                        tr \o <<NativeEv("Write::write_all", r.path, n.obj, TRUE)>>,
                        "Ok", <<>>)
            /\ UNCHANGED <<allowed, denied, table, next_rid, closed>>

write_file_inner(op, path, data, options, g, c) ==
    LET r == resolve_path(path, OptBase(options), g, c)
    IN
    IF ~r.ok THEN Failed(op, WriteArgs(path, data, options), g, c, 0, ResolveTrace(r), r.err)
    ELSE LET o == WriteOptsOf(options)
             n == NativeOpen(fs, r.path, o)
             tr == ResolveTrace(r) \o <<NativeEv("OpenOptions::open", r.path, n.obj, n.ok)>>
         IN IF ~n.ok THEN Failed(op, WriteArgs(path, data, options), g, c, 0, tr, "Io")
            ELSE LET old == n.fs[n.obj].data
                     now == WriteAt(old, IF o.append THEN Len(old) ELSE 0, data)
                 IN /\ fs' = [n.fs EXCEPT ![n.obj].data = now]
                    /\ Returned(op, WriteArgs(path, data, options), g, c, 0,
                                tr \o <<NativeEv("Write::write_all", r.path, n.obj, TRUE)>>,
                                "Ok", <<>>)
                    /\ UNCHANGED <<allowed, denied, table, next_rid, closed>>

write_file(path, data, options, g, c) ==
    write_file_inner("write_file", path, data, options, g, c)

\* data.as_bytes(): the bytes of a String
write_text_file(path, data, options, g, c) ==
    /\ IsUtf8(data)
    /\ write_file_inner("write_text_file", path, data, options, g, c)

exists(path, base_dir, g, c) ==
    LET r == resolve_path(path, base_dir, g, c) IN
    IF ~r.ok THEN Failed("exists", Args1(path, base_dir), g, c, 0, ResolveTrace(r), r.err)
    ELSE LET n == NativeMetadata(fs, r.path) IN
         /\ Returned("exists", Args1(path, base_dir), g, c, 0,
                     ResolveTrace(r) \o <<NativeEv("Path::exists", r.path, n.obj, TRUE)>>,
                     "Ok", n.ok)
         /\ UNCHANGED <<fs, allowed, denied, table, next_rid, closed>>

----------------------------------------------------------------------------
(* Commands that take a handle *)

\* the bytes behind an open file
ResData(f, res) == IF res.orphan THEN res.data ELSE NodeAt(f, res.obj).data

ResIsDir(f, res) == ~res.orphan /\ NodeAt(f, res.obj).kind = "dir"

Zeros(n) == [i \in 1..n |-> 0]

Min(a, b) == IF a <= b THEN a ELSE b

\* the open file's bytes and position after a native call on it
Stored(rid, pos, data, buf) ==
    /\ table' = [table EXCEPT ![rid].pos = pos,
                              ![rid].buf = buf,
                              ![rid].data = IF table[rid].orphan THEN data ELSE @]
    /\ fs' = IF table[rid].orphan THEN fs
             ELSE [fs EXCEPT ![table[rid].obj].data = data]

closeKeepsEntry(rid) ==
    LET k == TableClose(table, rid) IN
    IF ~k.ok THEN Failed("close", <<>>, NoScope, NoScope, rid, <<>>, "BadResourceId")
    ELSE /\ table' = table
         /\ closed' = closed \cup {rid}
         /\ Returned("close", <<>>, NoScope, NoScope, rid,
                     <<NativeEv("drop", table[rid].path, table[rid].obj, TRUE)>>, "Ok", <<>>)
         /\ UNCHANGED <<fs, allowed, denied, next_rid>>

closeSilent(rid) ==
    LET k == TableClose(table, rid) IN
    IF ~k.ok
    THEN /\ Returned("close", <<>>, NoScope, NoScope, rid, <<>>, "Ok", <<>>)
         /\ UNCHANGED <<fs, allowed, denied, table, next_rid, closed>>
    ELSE /\ table' = k.table
         /\ closed' = closed \cup {rid}
         /\ Returned("close", <<>>, NoScope, NoScope, rid,
                     <<NativeEv("drop", table[rid].path, table[rid].obj, TRUE)>>, "Ok", <<>>)
         /\ UNCHANGED <<fs, allowed, denied, next_rid>>

close(rid) ==
    LET k == TableClose(table, rid) IN
    IF ~k.ok THEN Failed("close", <<>>, NoScope, NoScope, rid, <<>>, "BadResourceId")
    ELSE /\ table' = k.table
         /\ closed' = closed \cup {rid}
         /\ Returned("close", <<>>, NoScope, NoScope, rid,
                     <<NativeEv("drop", table[rid].path, table[rid].obj, TRUE)>>, "Ok", <<>>)
         /\ UNCHANGED <<fs, allowed, denied, next_rid>>

\* returns the whole buffer of len bytes and the count read
read(rid, len) ==
    LET t == TableGet(table, rid, "file") IN
    IF ~t.ok THEN Failed("read", <<[len |-> len]>>, NoScope, NoScope, rid, <<>>, "BadResourceId")
    ELSE LET res == t.res
             d == ResData(fs, res)
             n == IF res.pos >= Len(d) THEN 0 ELSE Min(len, Len(d) - res.pos)
             can == res.read /\ ~ResIsDir(fs, res)
             tr == <<NativeEv("Read::read", res.path, res.obj, can)>>
         IN IF ~can THEN Failed("read", <<[len |-> len]>>, NoScope, NoScope, rid, tr, "Io")
            ELSE /\ Stored(rid, res.pos + n, d, res.buf)
                 /\ Returned("read", <<[len |-> len]>>, NoScope, NoScope, rid, tr, "Ok",
                             [data |-> SubSeq(d, res.pos + 1, res.pos + n) \o Zeros(len - n),
                              nread |-> n])
                 /\ UNCHANGED <<allowed, denied, next_rid, closed>>

writeAnyKind(rid, data) ==
    LET t == TableGet(table, rid, IF rid \in DOMAIN table THEN table[rid].kind ELSE "file") IN
    IF ~t.ok THEN Failed("write", <<>>, NoScope, NoScope, rid, <<>>, "BadResourceId")
    ELSE LET res == t.res
             d == ResData(fs, res)
             at == IF res.append THEN Len(d) ELSE res.pos
             now == WriteAt(d, at, data)
             tr == <<NativeEv("Write::write", res.path, res.obj, res.write)>>
         IN IF ~res.write THEN Failed("write", <<>>, NoScope, NoScope, rid, tr, "Io")
            ELSE /\ Stored(rid, at + Len(data), now, res.buf)
                 /\ Returned("write", <<>>, NoScope, NoScope, rid, tr, "Ok", Len(data))
                 /\ UNCHANGED <<allowed, denied, next_rid, closed>>

write(rid, data) ==
    LET t == TableGet(table, rid, "file") IN
    IF ~t.ok THEN Failed("write", <<>>, NoScope, NoScope, rid, <<>>, "BadResourceId")
    ELSE LET res == t.res
             d == ResData(fs, res)
             at == IF res.append THEN Len(d) ELSE res.pos
             now == WriteAt(d, at, data)
             tr == <<NativeEv("Write::write", res.path, res.obj, res.write)>>
         IN IF ~res.write THEN Failed("write", <<>>, NoScope, NoScope, rid, tr, "Io")
            ELSE /\ Stored(rid, at + Len(data), now, res.buf)
                 /\ Returned("write", <<>>, NoScope, NoScope, rid, tr, "Ok", Len(data))
                 /\ UNCHANGED <<allowed, denied, next_rid, closed>>

\* a 64-bit word as four 16-bit limbs, least significant first
Limb == 2^16

RECURSIVE Limbs(_, _)
Limbs(x, k) == IF k = 0 THEN <<>> ELSE <<x % Limb>> \o Limbs(x \div Limb, k - 1)

\* `offset as u64`: the two's complement word of offset, offset mod 2^64
\* (AsU64Magnitude: the sign dropped instead)
AsU64Magnitude(offset) == Limbs(IF offset < 0 THEN 0 - offset ELSE offset, 4)

AsU64(offset) == Limbs(offset, 4)

\* the word read back as the signed off_t that lseek receives is negative
OffNegative(u) == u[4] >= Limb \div 2

\* value of a word that fits the two low limbs
LowValue(u) == u[1] + Limb * u[2]

\* whence: "Start" (offset as u64), "Current", "End"; lseek refuses a
\* position that is negative as a signed 64-bit value
seek(rid, offset, whence) ==
    LET t == TableGet(table, rid, "file") IN
    IF ~t.ok THEN Failed("seek", <<[offset |-> offset, whence |-> whence]>>, NoScope, NoScope, rid, <<>>, "BadResourceId")
    ELSE LET res == t.res
             d == ResData(fs, res)
             u == AsU64(offset)
             refused == CASE whence = "Start" -> OffNegative(u)
                          [] whence = "Current" -> res.pos + offset < 0
                          [] whence = "End" -> Len(d) + offset < 0
             to == CASE whence = "Start" -> LowValue(u)
                     [] whence = "Current" -> res.pos + offset
                     [] whence = "End" -> Len(d) + offset
             tr == <<NativeEv("Seek::seek", res.path, res.obj, ~refused)>>
         IN IF refused THEN Failed("seek", <<[offset |-> offset, whence |-> whence]>>, NoScope, NoScope, rid, tr, "Io")
            ELSE /\ Stored(rid, to, d, res.buf)
                 /\ Returned("seek", <<[offset |-> offset, whence |-> whence]>>, NoScope, NoScope, rid, tr, "Ok", to)
                 /\ UNCHANGED <<allowed, denied, next_rid, closed>>

fstat(rid) ==
    LET t == TableGet(table, rid, "file") IN
    IF ~t.ok THEN Failed("fstat", <<>>, NoScope, NoScope, rid, <<>>, "BadResourceId")
    ELSE LET res == t.res
             node == IF res.orphan THEN FileNode(res.data) ELSE NodeAt(fs, res.obj)
         IN /\ Returned("fstat", <<>>, NoScope, NoScope, rid,
                        <<NativeEv("File::metadata", res.path, res.obj, TRUE)>>,
                        "Ok", get_stat(node))
            /\ UNCHANGED <<fs, allowed, denied, table, next_rid, closed>>

\* len = -1 stands for None
ftruncate(rid, len) ==
    LET t == TableGet(table, rid, "file") IN
    IF ~t.ok THEN Failed("ftruncate", <<[len |-> len]>>, NoScope, NoScope, rid, <<>>, "BadResourceId")
    ELSE LET res == t.res
             d == ResData(fs, res)
             tr == <<NativeEv("File::set_len", res.path, res.obj, res.write)>>
         IN IF ~res.write THEN Failed("ftruncate", <<[len |-> len]>>, NoScope, NoScope, rid, tr, "Io")
            ELSE /\ Stored(rid, res.pos, SetLen(d, IF len < 0 THEN 0 ELSE len), res.buf)
                 /\ Returned("ftruncate", <<[len |-> len]>>, NoScope, NoScope, rid, tr, "Ok", <<>>)
                 /\ UNCHANGED <<allowed, denied, next_rid, closed>>

\* index of the first newline of s, 0 when there is none
FirstNewline(s) ==
    IF \E i \in 1..Len(s) : s[i] = Newline
    THEN CHOOSE i \in 1..Len(s) : s[i] = Newline /\ \A j \in 1..(i - 1) : s[j] # Newline
    ELSE 0

\* Lines::next on the BufReader: the buffered bytes first, the file's bytes
\* from its position when the buffer holds no whole line.
LinesNext(res, d) ==
    LET refill == FirstNewline(res.buf) = 0
        more == IF refill /\ res.pos < Len(d) THEN SubSeq(d, res.pos + 1, Len(d)) ELSE <<>>
        avail == res.buf \o more
        pos == IF refill /\ res.pos < Len(d) THEN Len(d) ELSE res.pos
        nl == FirstNewline(avail)
        raw == IF nl = 0 THEN avail ELSE SubSeq(avail, 1, nl - 1)
        line == IF nl # 0 /\ Len(raw) > 0 /\ raw[Len(raw)] = 13
                THEN SubSeq(raw, 1, Len(raw) - 1) ELSE raw
    IN [eof |-> avail = <<>>, line |-> line, valid |-> IsUtf8(raw), pos |-> pos,
        buf |-> IF nl = 0 THEN <<>> ELSE SubSeq(avail, nl + 1, Len(avail))]

read_text_file_lines_nextRestarts(rid) ==
    LET t == TableGet(table, rid, "lines") IN
    IF ~t.ok
    THEN Failed("read_text_file_lines_next", <<>>, NoScope, NoScope, rid, <<>>, "BadResourceId")
    ELSE LET res == t.res
             n == LinesNext(res, ResData(fs, res))
             isdir == ResIsDir(fs, res)
             tr == <<NativeEv("Lines::next", res.path, res.obj, ~isdir /\ (n.eof \/ n.valid))>>
         IN IF isdir
            THEN /\ Returned("read_text_file_lines_next", <<>>, NoScope, NoScope, rid, tr, "Ok",
                             [some |-> FALSE, line |-> <<>>, done |-> FALSE])
                 /\ UNCHANGED <<fs, allowed, denied, table, next_rid, closed>>
            ELSE IF n.eof
            THEN /\ table' = TableClose(table, rid).table
                 /\ closed' = closed \cup {rid}
                 /\ Returned("read_text_file_lines_next", <<>>, NoScope, NoScope, rid,
                             tr \o <<NativeEv("drop", res.path, res.obj, TRUE)>>, "Ok",
                             [some |-> FALSE, line |-> <<>>, done |-> TRUE])
                 /\ UNCHANGED <<fs, allowed, denied, next_rid>>
            ELSE /\ Returned("read_text_file_lines_next", <<>>, NoScope, NoScope, rid, tr, "Ok",
                             [some |-> n.valid, line |-> IF n.valid THEN n.line ELSE <<>>,
                              done |-> FALSE])
                 /\ UNCHANGED <<fs, allowed, denied, table, next_rid, closed>>

read_text_file_lines_nextKeepsHandle(rid) ==
    LET t == TableGet(table, rid, "lines") IN
    IF ~t.ok
    THEN Failed("read_text_file_lines_next", <<>>, NoScope, NoScope, rid, <<>>, "BadResourceId")
    ELSE LET res == t.res
             n == LinesNext(res, ResData(fs, res))
             isdir == ResIsDir(fs, res)
             tr == <<NativeEv("Lines::next", res.path, res.obj, ~isdir /\ (n.eof \/ n.valid))>>
         IN IF isdir
            THEN /\ Returned("read_text_file_lines_next", <<>>, NoScope, NoScope, rid, tr, "Ok",
                             [some |-> FALSE, line |-> <<>>, done |-> FALSE])
                 /\ UNCHANGED <<fs, allowed, denied, table, next_rid, closed>>
            ELSE IF n.eof
            THEN /\ Returned("read_text_file_lines_next", <<>>, NoScope, NoScope, rid, tr, "Ok",
                             [some |-> FALSE, line |-> <<>>, done |-> TRUE])
                 /\ UNCHANGED <<fs, allowed, denied, table, next_rid, closed>>
            ELSE LET got == [some |-> n.valid, line |-> IF n.valid THEN n.line ELSE <<>>]
                 IN /\ table' = [table EXCEPT ![rid].pos = n.pos, ![rid].buf = n.buf,
                                              ![rid].returned = Append(@, got)]
                    /\ Returned("read_text_file_lines_next", <<>>, NoScope, NoScope, rid, tr,
                                "Ok", [some |-> got.some, line |-> got.line, done |-> FALSE])
                    /\ UNCHANGED <<fs, allowed, denied, next_rid, closed>>

read_text_file_lines_next(rid) ==
    LET t == TableGet(table, rid, "lines") IN
    IF ~t.ok
    THEN Failed("read_text_file_lines_next", <<>>, NoScope, NoScope, rid, <<>>, "BadResourceId")
    ELSE LET res == t.res
             n == LinesNext(res, ResData(fs, res))
             isdir == ResIsDir(fs, res)
             tr == <<NativeEv("Lines::next", res.path, res.obj, ~isdir /\ (n.eof \/ n.valid))>>
         IN IF isdir
            THEN /\ Returned("read_text_file_lines_next", <<>>, NoScope, NoScope, rid, tr, "Ok",
                             [some |-> FALSE, line |-> <<>>, done |-> FALSE])
                 /\ UNCHANGED <<fs, allowed, denied, table, next_rid, closed>>
            ELSE IF n.eof
            THEN /\ table' = TableClose(table, rid).table
                 /\ closed' = closed \cup {rid}
                 /\ Returned("read_text_file_lines_next", <<>>, NoScope, NoScope, rid,
                             tr \o <<NativeEv("drop", res.path, res.obj, TRUE)>>, "Ok",
                             [some |-> FALSE, line |-> <<>>, done |-> TRUE])
                 /\ UNCHANGED <<fs, allowed, denied, next_rid>>
            ELSE LET got == [some |-> n.valid, line |-> IF n.valid THEN n.line ELSE <<>>]
                 IN /\ table' = [table EXCEPT ![rid].pos = n.pos, ![rid].buf = n.buf,
                                              ![rid].returned = Append(@, got)]
                    /\ Returned("read_text_file_lines_next", <<>>, NoScope, NoScope, rid, tr,
                                "Ok", [some |-> got.some, line |-> got.line, done |-> FALSE])
                    /\ UNCHANGED <<fs, allowed, denied, next_rid, closed>>

----------------------------------------------------------------------------
(* Mutations of the baseline scope between two commands (FsExt::fs_scope) *)

allow_path(pattern) ==
    /\ allowed' = Append(allowed, pattern)
    /\ Returned("allow", <<>>, NoScope, NoScope, 0, <<>>, "Ok", <<>>)
    /\ UNCHANGED <<fs, denied, table, next_rid, closed>>

forbid_path(pattern) ==
    /\ denied' = Append(denied, pattern)
    /\ Returned("forbid", <<>>, NoScope, NoScope, 0, <<>>, "Ok", <<>>)
    /\ UNCHANGED <<fs, allowed, table, next_rid, closed>>

----------------------------------------------------------------------------
(* The initial state and the inputs of the commands *)

InitFs ==
    [p \in FsPaths |->
        CASE p \in {<<"/">>, <<"/", "home">>, HOME_U, DOCS, SECRET, ETC, TMP} -> DirNode
          [] p \in {A_TXT, X_TXT, PASSWD} -> FileNode(<<0>>)
          [] p = LINK -> LinkNode(PASSWD)
          [] OTHER -> NoNode]

NoLast == [op |-> "none", args |-> <<>>, g |-> NoScope, c |-> NoScope, rid |-> 0, trace |-> <<>>,
           result |-> "Ok", val |-> <<>>]

\* the window-state plugin is not part of the application
NoWindows ==
    /\ plugin = <<>>
    /\ running = FALSE
    /\ windows = <<>>
    /\ cache = <<>>
    /\ disk = <<>>

\* no resolve_path is between its two reads of the baseline scope
NoResolve == [at |-> "idle", arg |-> <<>>, allow |-> <<>>, deny |-> <<>>, seen |-> {}]

Threads == 1..MaxThreads

\* a caller that is in no command
IdleThread == [at |-> "idle", op |-> "none", rid |-> 0]

\* no command is running concurrently: no guard is held, no resource is
\* referenced outside the table
NoThreads ==
    /\ pc = [t \in Threads |-> IdleThread]
    /\ tlock = 0
    /\ heap = <<>>
    /\ released = <<>>
    /\ rp = NoResolve
    /\ answers = <<>>
    /\ NoWindows

\* the scope of the configuration: the documents directory without its
\* secret subdirectory
Init ==
    /\ fs = InitFs
    /\ allowed = <<DOCS>>
    /\ denied = <<SECRET>>
    /\ table = <<>>
    /\ next_rid = 1
    /\ closed = {}
    /\ last = NoLast
    /\ ncalls = 0
    /\ NoThreads

\* a plain path, a relative path with a base directory, a file: URL, a URL
\* of a remote host, a denied path, a link out of the scope, a path outside
PathArgs ==
    {Arg(A_TXT, "None"), Arg(<<"docs", "b.txt">>, "Home"),
     Arg(<<"file:", "remote", "a.txt">>, "None"),
     Arg(X_TXT, "None"), Arg(LINK, "None"), Arg(DOCS, "None")}

PairArgs == {Arg(A_TXT, "None"), Arg(<<"docs", "b.txt">>, "Home"), Arg(X_TXT, "None"),
             Arg(LINK, "None")}

\* <<global scope, command scope>> of a call
ScopeArgs == {<<NoScope, NoScope>>}

DataArgs == {<<0>>}

NoOptions == [some |-> FALSE, base_dir |-> "None", read |-> TRUE, write |-> FALSE,
              append |-> FALSE, truncate |-> FALSE, create |-> FALSE, create_new |-> FALSE]

OpenOptionArgs(base_dir) ==
    {NoOptions,
     [NoOptions EXCEPT !.some = TRUE, !.base_dir = base_dir, !.write = TRUE, !.create = TRUE],
     [NoOptions EXCEPT !.some = TRUE, !.base_dir = base_dir, !.write = TRUE,
                       !.create_new = TRUE]}

NoWriteOptions == [some |-> FALSE, base_dir |-> "None", append |-> FALSE, create |-> TRUE,
                   create_new |-> FALSE]

WriteOptionArgs(base_dir) ==
    {[NoWriteOptions EXCEPT !.some = (base_dir # "None"), !.base_dir = base_dir],
     [NoWriteOptions EXCEPT !.some = TRUE, !.base_dir = base_dir, !.append = TRUE]}

PathCommand(a, g, c) ==
    \/ create(a.path, a.base_dir, g, c)
    \/ \E o \in OpenOptionArgs(a.base_dir) : open(a.path, o, g, c)
    \/ \E recursive \in BOOLEAN : mkdir(a.path, a.base_dir, recursive, g, c)
    \/ read_dir(a.path, a.base_dir, g, c)
    \/ read_file(a.path, a.base_dir, g, c)
    \/ read_text_file(a.path, a.base_dir, g, c)
    \/ read_text_file_lines(a.path, a.base_dir, g, c)
    \/ \E recursive \in BOOLEAN : remove(a.path, a.base_dir, recursive, g, c)
    \/ stat(a.path, a.base_dir, g, c)
    \/ lstat(a.path, a.base_dir, g, c)
    \/ \E len \in {-1, 1} : truncate(a.path, a.base_dir, len, g, c)
    \/ \E d \in DataArgs, o \in WriteOptionArgs(a.base_dir) : write_file(a.path, d, o, g, c)
    \/ \E d \in DataArgs, o \in WriteOptionArgs(a.base_dir) : write_text_file(a.path, d, o, g, c)
    \/ exists(a.path, a.base_dir, g, c)

PairCommand(a, b, g, c) ==
    \/ copy_file(a.path, a.base_dir, b.path, b.base_dir, g, c)
    \/ rename(a.path, a.base_dir, b.path, b.base_dir, g, c)

\* The caller issues one command at a time and takes its response.
Idle == last.op = "none"

Deliver ==
    /\ ~Idle
    /\ last' = NoLast
    /\ UNCHANGED <<fs, allowed, denied, table, next_rid, closed, ncalls>>
    /\ UNCHANGED <<pc, tlock, heap, released, beyond>>

\* The part of the state space the model explores
Bounded ==
    /\ next_rid <= MaxRid + 1
    /\ Len(allowed) <= MaxScope
    /\ Len(denied) <= MaxScope
    /\ \A p \in DOMAIN fs : Len(fs[p].data) <= MaxLen
    /\ \A rid \in DOMAIN table : table[rid].pos <= MaxLen /\ Len(table[rid].data) <= MaxLen

\* one more command of the caller
Call ==
    /\ Idle
    /\ ncalls < MaxCalls
    /\ ncalls' = ncalls + 1
    /\ UNCHANGED <<pc, tlock, heap, released, beyond>>

Next ==
    \/ /\ Call
       /\ \E a \in PathArgs, s \in ScopeArgs : PathCommand(a, s[1], s[2])
       /\ Bounded'
    \/ /\ Call
       /\ \E a \in PairArgs, b \in PairArgs, s \in ScopeArgs : PairCommand(a, b, s[1], s[2])
       /\ Bounded'
    \/ Deliver

Spec == Init /\ [][Next]_vars

----------------------------------------------------------------------------
(* The scope between commands: the baseline is extended while commands of
   varying global and command scopes resolve paths *)

ScopePathArgs ==
    {Arg(A_TXT, "None"), Arg(X_TXT, "None"), Arg(PASSWD, "None"),
     Arg(<<"file:", "", "home", "u", "docs", "a.txt">>, "None"),
     Arg(<<"docs", "a.txt">>, "Home"), Arg(<<"docs", "a.txt">>, "Temp"),
     Arg(<<"file:", "remote", "a.txt">>, "None")}

\* what a capability may grant or deny a call
SourceArgs ==
    {NoScope, [allows |-> <<ETC>>, denies |-> <<>>], [allows |-> <<>>, denies |-> <<A_TXT>>]}

ScopePatterns == {ETC, A_TXT}

NextScope ==
    \/ /\ Idle
       /\ \E a \in ScopePathArgs, g \in SourceArgs, c \in SourceArgs :
             \/ read_file(a.path, a.base_dir, g, c)
             \/ exists(a.path, a.base_dir, g, c)
       /\ UNCHANGED <<ncalls, pc, tlock, heap, released, beyond>>
    \/ /\ Idle
       /\ \E pattern \in ScopePatterns : allow_path(pattern) \/ forbid_path(pattern)
       /\ Bounded'
       /\ UNCHANGED <<ncalls, pc, tlock, heap, released, beyond>>
    \/ Deliver

SpecScope == Init /\ [][NextScope]_vars

----------------------------------------------------------------------------
(* Handles: files are opened, used through their handles and closed while
   the baseline scope may come to deny them *)

HandlePathArgs == {Arg(A_TXT, "None"), Arg(X_TXT, "None")}

Rids == 1..(MaxRid + 1)

ReadWrite == [NoOptions EXCEPT !.some = TRUE, !.write = TRUE]

NextHandles ==
    \/ /\ Idle
       /\ \E a \in HandlePathArgs :
             \/ create(a.path, a.base_dir, NoScope, NoScope)
             \/ open(a.path, ReadWrite, NoScope, NoScope)
             \/ read_text_file_lines(a.path, a.base_dir, NoScope, NoScope)
       /\ Bounded'
       /\ UNCHANGED <<ncalls, pc, tlock, heap, released, beyond>>
    \/ /\ Idle
       /\ \E rid \in Rids :
             \/ close(rid)
             \/ read(rid, 1)
             \/ write(rid, <<0>>)
             \/ \E whence \in {"Start", "Current", "End"}, offset \in {-1, 0, 1} :
                   seek(rid, offset, whence)
             \/ fstat(rid)
             \/ ftruncate(rid, -1)
             \/ read_text_file_lines_next(rid)
       /\ Bounded'
       /\ UNCHANGED <<ncalls, pc, tlock, heap, released, beyond>>
    \/ /\ Idle
       /\ forbid_path(DOCS)
       /\ Len(denied') <= MaxScope
       /\ UNCHANGED <<ncalls, pc, tlock, heap, released, beyond>>
    \/ Deliver

SpecHandles == Init /\ [][NextHandles]_vars

----------------------------------------------------------------------------
(* Line cursors: a file of any content is opened with read_text_file_lines
   and its cursors are advanced and closed *)

\* longest content of the file the cursors read
MaxLineBytes == 3

\* a letter, the line feed, the carriage return, a byte that is not UTF-8
LineBytes == {97, Newline, 13, 255}

LineContents == UNION {[1..n -> LineBytes] : n \in 0..MaxLineBytes}

InitLines ==
    /\ \E d \in LineContents : fs = [InitFs EXCEPT ![A_TXT] = FileNode(d)]
    /\ allowed = <<DOCS>>
    /\ denied = <<SECRET>>
    /\ table = <<>>
    /\ next_rid = 1
    /\ closed = {}
    /\ last = NoLast
    /\ ncalls = 0
    /\ NoThreads

NextLines ==
    \/ /\ Idle
       /\ read_text_file_lines(A_TXT, "None", NoScope, NoScope)
       /\ next_rid' <= MaxRid + 1
       /\ UNCHANGED <<ncalls, pc, tlock, heap, released, beyond>>
    \/ /\ Idle
       /\ \E rid \in Rids : read_text_file_lines_next(rid)
       /\ UNCHANGED <<ncalls, pc, tlock, heap, released, beyond>>
    \/ /\ Idle
       /\ \E rid \in Rids : close(rid)
       /\ UNCHANGED <<ncalls, pc, tlock, heap, released, beyond>>
    \/ Deliver

SpecLines == InitLines /\ [][NextLines]_vars

----------------------------------------------------------------------------
(* Whole-file writes: files are written with every combination of options
   and read back *)

\* longest content of a file written here
MaxBytes == 2

\* the empty sequence, a zero byte, another byte
FileData == {<<>>, <<0>>, <<1>>}

\* an existing file, a missing file named relative to the home directory, a
\* directory
FilePathArgs == {Arg(A_TXT, "None"), Arg(<<"docs", "b.txt">>, "Home"), Arg(DOCS, "None")}

FileWriteOptions(base_dir) ==
    {[NoWriteOptions EXCEPT !.some = (base_dir # "None"), !.base_dir = base_dir]}
    \cup {[some |-> TRUE, base_dir |-> base_dir, append |-> b[1], create |-> b[2],
           create_new |-> b[3]] : b \in BOOLEAN \X BOOLEAN \X BOOLEAN}

CreateNew(base_dir) ==
    [NoOptions EXCEPT !.some = TRUE, !.base_dir = base_dir, !.write = TRUE, !.create_new = TRUE]

BoundedFiles ==
    /\ next_rid <= MaxRid + 1
    /\ \A p \in DOMAIN fs : Len(fs[p].data) <= MaxBytes

WriteOps == {"write_file", "write_text_file"}

NextFiles ==
    \/ /\ Idle
       /\ \E a \in FilePathArgs, d \in FileData :
             \E o \in FileWriteOptions(a.base_dir) :
                 \/ write_file(a.path, d, o, NoScope, NoScope)
                 \/ write_text_file(a.path, d, o, NoScope, NoScope)
       /\ BoundedFiles'
       /\ UNCHANGED <<ncalls, pc, tlock, heap, released, beyond>>
    \/ /\ Idle
       /\ \E a \in FilePathArgs : open(a.path, CreateNew(a.base_dir), NoScope, NoScope)
       /\ BoundedFiles'
       /\ UNCHANGED <<ncalls, pc, tlock, heap, released, beyond>>
    \/ /\ last.op \in WriteOps
       /\ \/ read_file(last.args[1].path, last.args[1].base_dir, NoScope, NoScope)
          \/ read_text_file(last.args[1].path, last.args[1].base_dir, NoScope, NoScope)
       /\ UNCHANGED <<ncalls, pc, tlock, heap, released, beyond>>
    \/ Deliver

SpecFiles == Init /\ [][NextFiles]_vars

----------------------------------------------------------------------------
(* Entry kinds: the documents directory holds a link to a file, to a
   directory or to nothing, possibly a pipe, and may be closed to traversal;
   entries are examined and removed *)

LinkTargets == {PASSWD, ETC, SECRET, B_TXT}

InitKinds ==
    /\ \E t \in LinkTargets, b \in {NoNode, OtherNode}, x \in BOOLEAN :
          fs = [InitFs EXCEPT ![LINK] = LinkNode(t), ![B_TXT] = b, ![DOCS].search = x]
    /\ allowed = <<DOCS>>
    /\ denied = <<SECRET>>
    /\ table = <<>>
    /\ next_rid = 1
    /\ closed = {}
    /\ last = NoLast
    /\ ncalls = 0
    /\ NoThreads

KindArgs == {Arg(LINK, "None"), Arg(<<"docs", "b.txt">>, "Home"), Arg(A_TXT, "None"),
             Arg(DOCS, "None"), Arg(X_TXT, "None"),
             Arg(<<"file:", "remote", "a.txt">>, "None")}

NextKinds ==
    \/ /\ Idle
       /\ \E a \in KindArgs, recursive \in BOOLEAN :
             remove(a.path, a.base_dir, recursive, NoScope, NoScope)
       /\ UNCHANGED <<ncalls, pc, tlock, heap, released, beyond>>
    \/ /\ Idle
       /\ \E a \in KindArgs :
             \/ stat(a.path, a.base_dir, NoScope, NoScope)
             \/ lstat(a.path, a.base_dir, NoScope, NoScope)
       /\ UNCHANGED <<ncalls, pc, tlock, heap, released, beyond>>
    \/ /\ Idle
       /\ \E a \in KindArgs : read_dir(a.path, a.base_dir, NoScope, NoScope)
       /\ UNCHANGED <<ncalls, pc, tlock, heap, released, beyond>>
    \/ /\ Idle
       /\ \E a \in KindArgs : exists(a.path, a.base_dir, NoScope, NoScope)
       /\ UNCHANGED <<ncalls, pc, tlock, heap, released, beyond>>
    \/ Deliver

SpecKinds == InitKinds /\ [][NextKinds]_vars

----------------------------------------------------------------------------
(* Concurrent callers: the host runs handle commands of independent callers
   at the same time. resources_table() is the guard of the table's mutex;
   get hands out a counted reference to the resource, which lives until its
   last reference is dropped; with_lock is the resource's own mutex around
   the native call. The object of a resource (its position, its buffer) is
   in heap; table holds the entry. *)

\* the reference the table holds
TableRef == 0

\* drop the reference who holds on rid: the last one releases the descriptor
Drop(st, rid, who) ==
    LET refs == st.heap[rid].refs \ {who} IN
    IF refs = {}
    THEN [heap |-> [x \in DOMAIN st.heap \ {rid} |-> st.heap[x]],
          released |-> Append(st.released, rid)]
    ELSE [heap |-> [st.heap EXCEPT ![rid].refs = refs], released |-> st.released]

\* the commands that use a file through its handle
FileThreadOps == {"read", "write", "seek", "fstat", "ftruncate"}

\* the commands that register a file
AddThreadOps == {"create", "open", "read_text_file_lines"}

\* webview.resources_table() returns: the table's mutex is free
TableFree == tlock = 0

\* self.0.lock() of with_lock returns: the mutex of the resource t uses is free
MutexFree(t) == heap[pc[t].rid].owner = 0

\* the table that read_text_file_lines_next closes its handle on is the guard
\* it has held since its lookup (HoldsTableAnew: webview.resources_table()
\* locked once more inside the closure)
HoldsTableAnew(t) == tlock = 0

HoldsTable(t) == tlock = t

\* the dispatcher calls the command handler for a caller
Invoke(t, op, rid) ==
    /\ pc[t].at = "idle"
    /\ ncalls' = ncalls + 1
    /\ pc' = [pc EXCEPT ![t] = [at |-> "get", op |-> op, rid |-> rid]]
    /\ UNCHANGED <<fs, allowed, denied, table, next_rid, closed, last,
                   tlock, heap, released>>

\* create, open, read_text_file_lines: the file opened,
\* resources_table().add(..)
Add(t) ==
    /\ pc[t].at = "get"
    /\ pc[t].op \in AddThreadOps
    /\ TableFree
    /\ CASE pc[t].op = "create" -> create(A_TXT, "None", NoScope, NoScope)
         [] pc[t].op = "open" ->
              open(A_TXT, [NoOptions EXCEPT !.some = TRUE, !.write = TRUE], NoScope, NoScope)
         [] pc[t].op = "read_text_file_lines" ->
              read_text_file_lines(A_TXT, "None", NoScope, NoScope)
    /\ heap' = IF next_rid' = next_rid THEN heap
               ELSE TableAdd(heap, next_rid,
                             [res |-> table'[next_rid], refs |-> {TableRef}, owner |-> 0])
    /\ pc' = [pc EXCEPT ![t] = IdleThread]
    /\ UNCHANGED <<ncalls, tlock, released>>

\* read, write, seek, fstat, ftruncate:
\* webview.resources_table().get::<StdFileResource>(rid)?  The guard is a
\* temporary, dropped at the end of the statement.
Get(t) ==
    /\ pc[t].at = "get"
    /\ pc[t].op \in FileThreadOps
    /\ TableFree
    /\ LET rid == pc[t].rid IN
       IF ~TableGet(table, rid, "file").ok
       THEN /\ Failed(pc[t].op, <<>>, NoScope, NoScope, rid, <<>>, "BadResourceId")
            /\ pc' = [pc EXCEPT ![t] = IdleThread]
            /\ UNCHANGED <<ncalls, tlock, heap, released>>
       ELSE /\ heap' = [heap EXCEPT ![rid].refs = @ \cup {t}]
            /\ pc' = [pc EXCEPT ![t].at = "lock"]
            /\ UNCHANGED <<fs, allowed, denied, table, next_rid, closed, last, ncalls,
                           tlock, released>>

\* read_text_file_lines_next: let mut resource_table = webview.resources_table();
\* resource_table.get::<StdLinesResource>(rid)?  The guard is a local of the
\* function, held until it returns.
GetLines(t) ==
    /\ pc[t].at = "get"
    /\ pc[t].op = "read_text_file_lines_next"
    /\ TableFree
    /\ LET rid == pc[t].rid IN
       IF ~TableGet(table, rid, "lines").ok
       THEN /\ Failed(pc[t].op, <<>>, NoScope, NoScope, rid, <<>>, "BadResourceId")
            /\ pc' = [pc EXCEPT ![t] = IdleThread]
            /\ UNCHANGED <<ncalls, tlock, heap, released>>
       ELSE /\ tlock' = t
            /\ heap' = [heap EXCEPT ![rid].refs = @ \cup {t}]
            /\ pc' = [pc EXCEPT ![t].at = "lock"]
            /\ UNCHANGED <<fs, allowed, denied, table, next_rid, closed, last, ncalls,
                           released>>

\* with_lock entered without taking the resource's mutex
LockNoMutex(t) ==
    /\ pc[t].at = "lock"
    /\ heap' = [heap EXCEPT ![pc[t].rid].owner = t]
    /\ pc' = [pc EXCEPT ![t].at = "native"]
    /\ UNCHANGED <<fs, allowed, denied, table, next_rid, closed, last, ncalls,
                   tlock, released>>

\* with_lock: self.0.lock().unwrap(); the native call starts
Lock(t) ==
    /\ pc[t].at = "lock"
    /\ MutexFree(t)
    /\ heap' = [heap EXCEPT ![pc[t].rid].owner = t]
    /\ pc' = [pc EXCEPT ![t].at = "native"]
    /\ UNCHANGED <<fs, allowed, denied, table, next_rid, closed, last, ncalls,
                   tlock, released>>

\* the native call of a file command on the object res whose bytes are d:
\* read of one byte, write of one zero byte, seek to the start, fstat,
\* ftruncate to no bytes
NativeOf(op, res, d) ==
    CASE op = "read" ->
           LET n == IF res.pos >= Len(d) THEN 0 ELSE Min(1, Len(d) - res.pos) IN
           [call |-> "Read::read", ok |-> res.read, pos |-> res.pos + n, data |-> d,
            val |-> [data |-> SubSeq(d, res.pos + 1, res.pos + n) \o Zeros(1 - n),
                     nread |-> n]]
      [] op = "write" ->
           LET at == IF res.append THEN Len(d) ELSE res.pos IN
           [call |-> "Write::write", ok |-> res.write, pos |-> at + 1,
            data |-> WriteAt(d, at, <<0>>), val |-> 1]
      [] op = "seek" ->
           [call |-> "Seek::seek", ok |-> TRUE, pos |-> 0, data |-> d, val |-> 0]
      [] op = "fstat" ->
           [call |-> "File::metadata", ok |-> TRUE, pos |-> res.pos, data |-> d,
            val |-> get_stat(FileNode(d))]
      [] op = "ftruncate" ->
           [call |-> "File::set_len", ok |-> res.write, pos |-> res.pos,
            data |-> SetLen(d, 0), val |-> <<>>]

\* the native call of a file command ends: its effect, the mutex released,
\* the reference dropped, the result returned
Native(t) ==
    /\ pc[t].at = "native"
    /\ pc[t].op # "read_text_file_lines_next"
    /\ LET rid == pc[t].rid
           res == heap[rid].res
           n == NativeOf(pc[t].op, res, ResData(fs, res))
           after == [heap EXCEPT ![rid].res.pos = IF n.ok THEN n.pos ELSE @,
                                 ![rid].owner = 0]
           st == Drop([heap |-> after, released |-> released], rid, t)
       IN /\ fs' = IF n.ok THEN [fs EXCEPT ![res.obj].data = n.data] ELSE fs
          /\ heap' = st.heap
          /\ released' = st.released
          /\ Returned(pc[t].op, <<>>, NoScope, NoScope, rid,
                      <<NativeEv(n.call, res.path, res.obj, n.ok)>>,
                      IF n.ok THEN "Ok" ELSE "Io", IF n.ok THEN n.val ELSE <<>>)
    /\ pc' = [pc EXCEPT ![t] = IdleThread]
    /\ UNCHANGED <<allowed, denied, table, next_rid, closed, ncalls, tlock>>

\* read_text_file_lines_next: lines.next() ends; at the end of the file
\* resource_table.close(rid) on the guard held since the lookup; then the
\* mutex, the reference and the guard are dropped
NativeLinesKeepsHandle(t) ==
    /\ pc[t].at = "native"
    /\ pc[t].op = "read_text_file_lines_next"
    /\ LET rid == pc[t].rid
           res == heap[rid].res
           n == LinesNext(res, ResData(fs, res))
           tr == <<NativeEv("Lines::next", res.path, res.obj, n.eof \/ n.valid)>>
           got == [some |-> n.valid, line |-> IF n.valid THEN n.line ELSE <<>>]
           after == [heap EXCEPT ![rid].res.pos = n.pos, ![rid].res.buf = n.buf,
                                 ![rid].owner = 0]
           now == [heap |-> after, released |-> released]
           st == Drop(now, rid, t)
       IN /\ table' = table
          /\ closed' = closed
          /\ heap' = st.heap
          /\ released' = st.released
          /\ Returned(pc[t].op, <<>>, NoScope, NoScope, rid, tr, "Ok",
                      IF n.eof THEN [some |-> FALSE, line |-> <<>>, done |-> TRUE]
                      ELSE [some |-> got.some, line |-> got.line, done |-> FALSE])
    /\ tlock' = 0
    /\ pc' = [pc EXCEPT ![t] = IdleThread]
    /\ UNCHANGED <<fs, allowed, denied, next_rid, ncalls>>

NativeLines(t) ==
    /\ pc[t].at = "native"
    /\ pc[t].op = "read_text_file_lines_next"
    /\ LET rid == pc[t].rid
           res == heap[rid].res
           n == LinesNext(res, ResData(fs, res))
           tr == <<NativeEv("Lines::next", res.path, res.obj, n.eof \/ n.valid)>>
           got == [some |-> n.valid, line |-> IF n.valid THEN n.line ELSE <<>>]
           after == [heap EXCEPT ![rid].res.pos = n.pos, ![rid].res.buf = n.buf,
                                 ![rid].owner = 0]
           now == [heap |-> after, released |-> released]
           st == IF n.eof THEN Drop(Drop(now, rid, TableRef), rid, t) ELSE Drop(now, rid, t)
       IN /\ n.eof => HoldsTable(t)
          /\ table' = IF n.eof THEN TableClose(table, rid).table ELSE table
          /\ closed' = IF n.eof THEN closed \cup {rid} ELSE closed
          /\ heap' = st.heap
          /\ released' = st.released
          /\ Returned(pc[t].op, <<>>, NoScope, NoScope, rid, tr, "Ok",
                      IF n.eof THEN [some |-> FALSE, line |-> <<>>, done |-> TRUE]
                      ELSE [some |-> got.some, line |-> got.line, done |-> FALSE])
    /\ tlock' = 0
    /\ pc' = [pc EXCEPT ![t] = IdleThread]
    /\ UNCHANGED <<fs, allowed, denied, next_rid, ncalls>>

\* close: webview.resources_table().close(rid)
Close(t) ==
    /\ pc[t].at = "get"
    /\ pc[t].op = "close"
    /\ TableFree
    /\ LET rid == pc[t].rid
           k == TableClose(table, rid)
           st == Drop([heap |-> heap, released |-> released], rid, TableRef)
       IN IF ~k.ok
          THEN /\ Failed("close", <<>>, NoScope, NoScope, rid, <<>>, "BadResourceId")
               /\ UNCHANGED <<heap, released>>
          ELSE /\ table' = k.table
               /\ closed' = closed \cup {rid}
               /\ heap' = st.heap
               /\ released' = st.released
               /\ Returned("close", <<>>, NoScope, NoScope, rid, <<>>, "Ok", <<>>)
               /\ UNCHANGED <<fs, allowed, denied, next_rid>>
    /\ pc' = [pc EXCEPT ![t] = IdleThread]
    /\ UNCHANGED <<ncalls, tlock>>

ThreadOps == {"read", "write", "read_text_file_lines_next", "close"}

NextThreads ==
    \/ (\E t \in Threads, op \in ThreadOps, rid \in 1..MaxRid : Invoke(t, op, rid))
          /\ ncalls < MaxInvokes /\ UNCHANGED beyond
    \/ (\E t \in Threads, op \in {"open", "read_text_file_lines"} : Invoke(t, op, 0))
          /\ ncalls < MaxInvokes /\ UNCHANGED beyond
    \/ (\E t \in Threads : Add(t) /\ next_rid' <= MaxRid + 1) /\ UNCHANGED beyond
    \/ (\E t \in Threads : Get(t)) /\ UNCHANGED beyond
    \/ (\E t \in Threads : GetLines(t)) /\ UNCHANGED beyond
    \/ (\E t \in Threads : Lock(t)) /\ UNCHANGED beyond
    \/ (\E t \in Threads : Native(t) /\ Bounded') /\ UNCHANGED beyond
    \/ (\E t \in Threads : NativeLines(t)) /\ UNCHANGED beyond
    \/ (\E t \in Threads : Close(t)) /\ UNCHANGED beyond

SpecThreads == Init /\ [][NextThreads]_vars

----------------------------------------------------------------------------
(* Properties *)

Range(s) == {s[i] : i \in 1..Len(s)}

PathOps ==
    {"create", "open", "copy_file", "mkdir", "read_dir", "read_file", "read_text_file",
     "read_text_file_lines", "remove", "rename", "stat", "lstat", "truncate",
     "write_file", "write_text_file", "exists"}

HandleOps == {"read", "write", "seek", "fstat", "ftruncate", "read_text_file_lines_next"}

ScopeEvents(l) == {i \in 1..Len(l.trace) : l.trace[i].ev = "scope"}

NativeEvents(l) == {i \in 1..Len(l.trace) : l.trace[i].ev = "native"}

\* some path of the command was resolved and not admitted
Forbidden(l) == \E i \in ScopeEvents(l) : ~l.trace[i].ok

\* a pattern of the set matches the path
SomeMatch(patterns, path) == \E pattern \in patterns : Matches(pattern, path)

\* the path a command argument names, before any admission
ArgPath(a) ==
    LET u == file_url_to_safe_pathbuf(a.path) IN
    IF a.base_dir # "None" THEN PathResolve(u.path, a.base_dir) ELSE u.path

\* C1: in every path command the admission checks come before every native
\* call, each native call is on a path that a check of this command has
\* admitted, and a command with a path that is not admitted returns
\* PathForbidden without a native call, the filesystem and the resource
\* table being as they were.
C1_ScopeCheckBeforeNative ==
    [][last'.op \in PathOps =>
        /\ \A i \in NativeEvents(last') :
              /\ \A j \in ScopeEvents(last') : j < i
              /\ \E j \in ScopeEvents(last') :
                    last'.trace[j].ok /\ last'.trace[j].path = last'.trace[i].path
        /\ Forbidden(last') =>
              /\ last'.result = "PathForbidden"
              /\ NativeEvents(last') = {}
              /\ fs' = fs
              /\ table' = table
              /\ next_rid' = next_rid]_vars

\* a write to the denied file has been refused, the file holding its bytes
C1_Witness ==
    /\ last.op = "write_file"
    /\ last.result = "PathForbidden"
    /\ Forbidden(last)
    /\ fs[X_TXT] = FileNode(<<0>>)

\* C2: a path is admitted exactly when some allow pattern of the composite
\* scope matches it and no deny pattern does, and is refused with
\* PathForbidden otherwise; under allow {/home/u/docs} and deny
\* {/home/u/docs/secret}, /home/u/docs/secret/x.txt is forbidden and
\* /home/u/docs/a.txt is admitted.
C2_AdmittedIffAllowedNotDenied ==
    last.op \in PathOps =>
        /\ \A i \in ScopeEvents(last) :
              LET e == last.trace[i] IN
              /\ e.ok <=> (SomeMatch(Range(e.allow), e.path) /\ ~SomeMatch(Range(e.deny), e.path))
              /\ (Range(e.allow) = {DOCS} /\ Range(e.deny) = {SECRET}) =>
                    /\ e.path = X_TXT => ~e.ok
                    /\ e.path = A_TXT => e.ok
        /\ last.result = "PathForbidden" <=> Forbidden(last)
        /\ Forbidden(last) => NativeEvents(last) = {}

\* the scenario: x.txt below the denied directory has been refused
C2_Witness ==
    /\ last.op = "read_file"
    /\ last.result = "PathForbidden"
    /\ \E i \in ScopeEvents(last) :
          /\ last.trace[i].path = X_TXT
          /\ Range(last.trace[i].allow) = {DOCS}
          /\ Range(last.trace[i].deny) = {SECRET}

\* C3: the composite scope's allow set is the union of the baseline, global
\* and command allows and its deny set the union of the three deny lists; the
\* decision is the same whatever the order of the sources, and a deny entry of
\* any source that matches the path refuses it whatever the allows are.
C3_CompositeIsUnion ==
    last.op \in PathOps =>
        \A i \in ScopeEvents(last) :
            LET e == last.trace[i]
                g == last.g
                c == last.c
            IN /\ Range(e.allow) = Range(allowed) \cup Range(g.allows) \cup Range(c.allows)
               /\ Range(e.deny) = Range(denied) \cup Range(g.denies) \cup Range(c.denies)
               /\ e.ok = is_allowed(c.allows \o g.allows \o allowed,
                                    c.denies \o g.denies \o denied, e.path)
               /\ e.ok = is_allowed(g.allows \o allowed \o c.allows,
                                    g.denies \o c.denies \o denied, e.path)
               /\ \A src \in {denied, g.denies, c.denies} : AnyMatch(src, e.path) => ~e.ok

\* a path the baseline allows has been refused on a deny of the global scope
\* alone
C3_Witness ==
    /\ last.op = "read_file"
    /\ last.g.denies = <<A_TXT>>
    /\ last.c.denies = <<>>
    /\ \E i \in ScopeEvents(last) :
          /\ last.trace[i].path = A_TXT
          /\ AnyMatch(allowed, A_TXT)
          /\ ~AnyMatch(denied, A_TXT)
          /\ ~last.trace[i].ok

\* a source with one more allow entry, one more deny entry
WithAllow(src, pattern) == [src EXCEPT !.allows = Append(@, pattern)]

WithDeny(src, pattern) == [src EXCEPT !.denies = Append(@, pattern)]

\* the decision of resolve_path on an argument under the scopes of a call
Admits(a, g, c) == resolve_path(a.path, a.base_dir, g, c).ok

\* C4: whatever the path and the scope, an allow entry added to the global
\* scope, to the command scope or to the baseline never makes an admitted
\* path forbidden, and a deny entry added to any of them never makes a
\* forbidden path admitted.
C4_ScopeMonotone ==
    [][\A a \in ScopePathArgs, g \in SourceArgs, c \in SourceArgs :
          /\ \A pattern \in ScopePatterns :
                /\ Admits(a, g, c) =>
                      Admits(a, WithAllow(g, pattern), c) /\ Admits(a, g, WithAllow(c, pattern))
                /\ ~Admits(a, g, c) =>
                      ~Admits(a, WithDeny(g, pattern), c) /\ ~Admits(a, g, WithDeny(c, pattern))
          /\ (last'.op = "allow" /\ Admits(a, g, c)) => Admits(a, g, c)'
          /\ (last'.op = "forbid" /\ ~Admits(a, g, c)) => ~Admits(a, g, c)']_vars

\* the baseline has been given an allow entry while a.txt was admitted, and a
\* deny entry was added before while passwd was forbidden
C4_Witness ==
    /\ last.op = "allow"
    /\ Len(allowed) > 1
    /\ Len(denied) > 1
    /\ Admits(Arg(A_TXT, "None"), NoScope, NoScope)
    /\ ~Admits(Arg(PASSWD, "None"), NoScope, [allows |-> <<ETC>>, denies |-> <<>>])

\* C5: each call decides on the sources as they are at that call: the
\* decision of a command is the one its path gets from the baseline lists of
\* the state it returns in and from the scopes the call came with, whatever
\* was granted or denied before.
C5_ScopeRebuiltEachCall ==
    last.op \in PathOps =>
        \A i \in ScopeEvents(last) :
            LET e == last.trace[i]
                allow == Range(allowed) \cup Range(last.g.allows) \cup Range(last.c.allows)
                deny == Range(denied) \cup Range(last.g.denies) \cup Range(last.c.denies)
            IN e.ok <=> (SomeMatch(allow, e.path) /\ ~SomeMatch(deny, e.path))

\* /etc/passwd, outside the scope of the configuration, is read once /etc
\* has been granted to the baseline
C5_Witness ==
    /\ last.op = "read_file"
    /\ last.g = NoScope
    /\ last.c = NoScope
    /\ last.result = "Ok"
    /\ \E i \in ScopeEvents(last) : last.trace[i].path = PASSWD /\ last.trace[i].ok
    /\ ETC \in Range(allowed)

\* C6: copy_file and rename check both paths, each resolved with its own
\* base directory, before the native call: the native call is made only
\* after two admissions, of the source and of the destination, and when
\* either is forbidden the result is PathForbidden and nothing is read,
\* created, changed or moved.
C6_BothPathsAuthorized ==
    [][last'.op \in {"copy_file", "rename"} =>
        /\ NativeEvents(last') # {} =>
              /\ Len(last'.trace) >= 2
              /\ \A k \in {1, 2} :
                    /\ last'.trace[k].ev = "scope"
                    /\ last'.trace[k].ok
                    /\ last'.trace[k].path = ArgPath(last'.args[k])
              /\ \A i \in NativeEvents(last') :
                    i > 2 /\ last'.trace[i].path \in {ArgPath(last'.args[1]), ArgPath(last'.args[2])}
        /\ Forbidden(last') =>
              /\ last'.result = "PathForbidden"
              /\ NativeEvents(last') = {}
              /\ fs' = fs
              /\ table' = table]_vars

\* a copy from an admitted source, named relative to the home directory, to
\* the denied file has been refused
C6_Witness ==
    /\ last.op = "copy_file"
    /\ last.args[1] = Arg(<<"docs", "b.txt">>, "Home")
    /\ last.args[2] = Arg(X_TXT, "None")
    /\ last.result = "PathForbidden"
    /\ Len(last.trace) = 2
    /\ fs[X_TXT] = FileNode(<<0>>)

\* the composite scope in force in the state admits the path
AdmittedNow(l, path) ==
    /\ SomeMatch(Range(allowed) \cup Range(l.g.allows) \cup Range(l.c.allows), path)
    /\ ~SomeMatch(Range(denied) \cup Range(l.g.denies) \cup Range(l.c.denies), path)

\* C7 as claimed: no command, by path or by handle, makes a native call on a
\* file whose path the composite scope in force at the call does not admit.
C7_BoundaryBeforeEveryNativeCall ==
    last.op \in PathOps \cup HandleOps =>
        \A i \in NativeEvents(last) :
            last.trace[i].ok => AdmittedNow(last, last.trace[i].path)

\* C7, amended: a path command makes its native calls on a path the scope in
\* force at the call has admitted; a handle command makes its native calls on
\* the file of a live handle, whose path was admitted by the scope in force
\* when the handle was opened, the scope not being consulted again.
C7_BoundaryWhenOpened ==
    [][/\ last'.op \in PathOps =>
              \A i \in NativeEvents(last') :
                  /\ AdmittedNow(last', last'.trace[i].path)
                  /\ \E j \in ScopeEvents(last') :
                        j < i /\ last'.trace[j].ok /\ last'.trace[j].path = last'.trace[i].path
       /\ last'.op \in HandleOps =>
              /\ ScopeEvents(last') = {}
              /\ \A i \in NativeEvents(last') :
                    /\ last'.rid \in DOMAIN table
                    /\ last'.trace[i].path = table[last'.rid].path
                    /\ SomeMatch(Range(table[last'.rid].allow), last'.trace[i].path)
                    /\ ~SomeMatch(Range(table[last'.rid].deny), last'.trace[i].path)]_vars

\* a file opened while admitted has been read through its handle after its
\* directory was denied
C7_Witness ==
    /\ last.op = "read"
    /\ last.result = "Ok"
    /\ DOCS \in Range(denied)
    /\ \E i \in NativeEvents(last) : last.trace[i].path = A_TXT

\* C8 as claimed: every filesystem object a command's native call reaches
\* lies inside the scope that admitted the command's path, links included.
C8_NoObjectOutsideScope ==
    last.op \in PathOps =>
        \A i \in NativeEvents(last) :
            (last.trace[i].ok /\ last.trace[i].obj # <<>>) =>
                AdmittedNow(last, last.trace[i].obj)

\* C9: once a handle is closed, by close or by its cursor running out, every
\* later read, write, seek, fstat, ftruncate or next with its id fails with
\* the handle-not-found error and makes no native call, whatever was opened
\* or created since.
C9_ClosedHandleStaysDead ==
    [][(last'.op \in HandleOps /\ last'.rid \in closed) =>
          /\ last'.result = "BadResourceId"
          /\ last'.trace = <<>>
          /\ fs' = fs
          /\ table' = table]_vars

\* a closed id has been used while a handle opened after it is live
C9_Witness ==
    /\ last.op \in HandleOps
    /\ last.rid \in closed
    /\ last.result = "BadResourceId"
    /\ \E rid \in DOMAIN table : rid > last.rid

\* C10: close with an id that was never handed out or is already closed
\* returns the handle-not-found error and leaves the table as it was.
C10_CloseUnknownFails ==
    [][(last'.op = "close" /\ (last'.rid \in closed \/ last'.rid >= next_rid)) =>
          /\ last'.result = "BadResourceId"
          /\ table' = table
          /\ closed' = closed]_vars

\* a second close of an id has failed, another handle staying in the table
C10_Witness ==
    /\ last.op = "close"
    /\ last.rid \in closed
    /\ last.result = "BadResourceId"
    /\ DOMAIN table # {}

\* the commands that hand out a handle
IssuingOps == {"create", "open", "read_text_file_lines"}

Breaks(d) == {i \in 1..Len(d) : d[i] = Newline}

\* the number of lines of a content: one per line feed, and one more when
\* bytes follow the last line feed
NumLines(d) ==
    Cardinality(Breaks(d)) + (IF Len(d) > 0 /\ d[Len(d)] # Newline THEN 1 ELSE 0)

\* the position of the k-th line feed
BreakAt(d, k) == CHOOSE i \in Breaks(d) : Cardinality({j \in Breaks(d) : j < i}) = k - 1

\* the k-th line of a content, without its line feed and without the carriage
\* return before it
LineOf(d, k) ==
    LET from == IF k = 1 THEN 1 ELSE BreakAt(d, k - 1) + 1
        ended == k <= Cardinality(Breaks(d))
        raw == SubSeq(d, from, IF ended THEN BreakAt(d, k) - 1 ELSE Len(d))
    IN IF ended /\ Len(raw) > 0 /\ raw[Len(raw)] = 13
       THEN SubSeq(raw, 1, Len(raw) - 1) ELSE raw

\* C12: on the cursor of a text file of n lines the calls deliver the lines
\* in file order, each once: a cursor that has delivered k lines has
\* delivered lines 1..k, its next call returns (line k+1, false) when k < n
\* and (none, true) when k = n.
C12_LinesInOrderOnce ==
    [][(/\ last'.op = "read_text_file_lines_next"
        /\ last'.rid \in DOMAIN table
        /\ table[last'.rid].kind = "lines"
        /\ IsUtf8(fs[table[last'.rid].obj].data)) =>
          LET res == table[last'.rid]
              d == fs[res.obj].data
              k == Len(res.returned)
          IN /\ k <= NumLines(d)
             /\ \A i \in 1..k : res.returned[i] = [some |-> TRUE, line |-> LineOf(d, i)]
             /\ last'.result = "Ok"
             /\ IF k < NumLines(d)
                THEN /\ last'.val = [some |-> TRUE, line |-> LineOf(d, k + 1), done |-> FALSE]
                     /\ last'.rid \in DOMAIN table'
                     /\ Len(table'[last'.rid].returned) = k + 1
                ELSE last'.val = [some |-> FALSE, line |-> <<>>, done |-> TRUE]]_vars

\* the cursor of a file of two lines has reported the end
C12_Witness ==
    /\ last.op = "read_text_file_lines_next"
    /\ last.result = "Ok"
    /\ last.val.done
    /\ IsUtf8(fs[A_TXT].data)
    /\ NumLines(fs[A_TXT].data) = 2
    /\ LineOf(fs[A_TXT].data, 1) # LineOf(fs[A_TXT].data, 2)

\* C13: the call that returns done = true has removed the cursor's handle
\* when it returns, and a next call with a handle that is gone fails with the
\* handle-not-found error: it never reports the end again and never returns
\* a line.
C13_ExhaustionIsTerminal ==
    [][last'.op = "read_text_file_lines_next" =>
          /\ (last'.result = "Ok" /\ last'.val.done) =>
                /\ last'.rid \in DOMAIN table
                /\ last'.rid \notin DOMAIN table'
                /\ last'.rid \in closed'
          /\ last'.rid \in closed =>
                /\ last'.result = "BadResourceId"
                /\ last'.val = <<>>
                /\ table' = table]_vars

\* a call on a cursor that has reported the end has failed
C13_Witness ==
    /\ last.op = "read_text_file_lines_next"
    /\ last.result = "BadResourceId"
    /\ last.rid \in closed
    /\ table = <<>>
    /\ next_rid = 2

\* C14: a create, open or read_text_file_lines that fails, on the scope, on
\* the path or on the native open, registers nothing: the table and the next
\* id are as before the call.
C14_FailedOpenRegistersNothing ==
    [][(last'.op \in IssuingOps /\ last'.result # "Ok") =>
          /\ last'.result \in {"PathForbidden", "InvalidPath", "Io"}
          /\ table' = table
          /\ next_rid' = next_rid
          /\ closed' = closed]_vars

\* an open has failed on the native call while a handle was live
C14_Witness ==
    /\ last.op = "open"
    /\ last.result = "Io"
    /\ DOMAIN table = {1}
    /\ next_rid = 2

\* the options of a write are the defaults: create and truncate
DefaultWrite(options) ==
    ~options.some \/ (~options.append /\ options.create /\ ~options.create_new)

\* C15: a write_file with the default options that succeeds, followed by
\* read_file of the same path, gives back exactly the bytes written, the
\* empty sequence and zero bytes included, whatever the file held before.
C15_WriteReadRoundTrip ==
    [][(/\ last.op = "write_file"
        /\ last.result = "Ok"
        /\ DefaultWrite(last.args[1].options)
        /\ last'.op = "read_file"
        /\ last'.args[1].path = last.args[1].path
        /\ last'.args[1].base_dir = last.args[1].base_dir) =>
          /\ last'.result = "Ok"
          /\ last'.val = last.args[1].data]_vars

\* the empty sequence written over a file of one byte has been read back
C15_Witness ==
    /\ last.op = "read_file"
    /\ last.args[1].path = A_TXT
    /\ last.result = "Ok"
    /\ last.val = <<>>
    /\ fs[A_TXT] = FileNode(<<>>)

\* the path of a command's first argument names something, a link included
ArgExists(l) == NativeSymlinkMetadata(fs, ArgPath(l.args[1])).ok

\* the path of the command was resolved and admitted
ArgAdmitted(l) == ScopeEvents(l) # {} /\ ~Forbidden(l)

\* C16: open, write_file and write_text_file with create_new = true on a
\* path that exists fail with the Io error; the filesystem is as before (no
\* truncation, no write) and no handle is registered.
C16_CreateNewOnExistingFails ==
    [][(/\ last'.op \in {"open", "write_file", "write_text_file"}
        /\ last'.args[1].options.some
        /\ last'.args[1].options.create_new
        /\ ArgAdmitted(last')
        /\ ArgExists(last')) =>
          /\ last'.result = "Io"
          /\ fs' = fs
          /\ table' = table
          /\ next_rid' = next_rid]_vars

\* a write with create_new on the existing file has failed, the file
\* holding its byte
C16_Witness ==
    /\ last.op = "write_file"
    /\ last.args[1].path = A_TXT
    /\ last.args[1].options.create_new
    /\ last.args[1].data = <<1>>
    /\ last.result = "Io"
    /\ fs[A_TXT] = FileNode(<<0>>)

\* C17: write_file and write_text_file on an existing file with create =
\* true and create_new = false (or no options) succeed; without append the
\* file then holds exactly the data written, with append it holds its old
\* content followed by the data; no other file changes.
C17_WriteTruncatesOrAppends ==
    [][(/\ last'.op \in WriteOps
        /\ \/ ~last'.args[1].options.some
           \/ last'.args[1].options.create /\ ~last'.args[1].options.create_new
        /\ ArgAdmitted(last')
        /\ NodeAt(fs, Canon(fs, ArgPath(last'.args[1]))).kind = "file") =>
          LET q == Canon(fs, ArgPath(last'.args[1]))
              o == last'.args[1].options
          IN /\ last'.result = "Ok"
             /\ fs'[q].kind = "file"
             /\ fs'[q].data = IF o.some /\ o.append
                              THEN fs[q].data \o last'.args[1].data
                              ELSE last'.args[1].data
             /\ \A p \in DOMAIN fs \ {q} : fs'[p] = fs[p]]_vars

\* a byte has been appended to the file's byte
C17_Witness ==
    /\ last.op = "write_text_file"
    /\ last.args[1].path = A_TXT
    /\ last.args[1].options.some
    /\ last.args[1].options.append
    /\ last.args[1].data = <<1>>
    /\ last.result = "Ok"
    /\ fs[A_TXT] = FileNode(<<0, 1>>)

\* C18 as claimed: a read that succeeds returns the count n of bytes read,
\* n <= len, and a byte sequence that is exactly the n bytes of the file from
\* the handle's position before the call; the position advances by n.
C18_ReadReturnsBytesRead ==
    [][(last'.op = "read" /\ last'.result = "Ok") =>
          LET res == table[last'.rid]
              d == ResData(fs, res)
              n == last'.val.nread
          IN /\ n <= last'.args[1].len
             /\ last'.val.data = SubSeq(d, res.pos + 1, res.pos + n)
             /\ table'[last'.rid].pos = res.pos + n]_vars

\* C19 as claimed: seek on a live file handle sets the position and returns
\* it: Start gives the offset taken as an unsigned 64-bit value, a negative
\* offset being reinterpreted modulo 2^64 and not rejected; Current gives the
\* old position plus the offset and End the file length plus the offset, and
\* a negative resulting position fails and leaves the position unchanged.
C19_SeekStartNeverRejected ==
    [][(last'.op = "seek" /\ last'.result # "BadResourceId") =>
          LET res == table[last'.rid]
              offset == last'.args[1].offset
              whence == last'.args[1].whence
              to == IF whence = "Current" THEN res.pos + offset
                    ELSE Len(ResData(fs, res)) + offset
          IN IF whence = "Start"
             THEN /\ last'.result = "Ok"
                  /\ Limbs(last'.val, 4) = Limbs(offset, 4)
                  /\ Limbs(table'[last'.rid].pos, 4) = Limbs(offset, 4)
             ELSE IF to < 0
                  THEN last'.result = "Io" /\ table'[last'.rid].pos = res.pos
                  ELSE /\ last'.result = "Ok"
                       /\ last'.val = to
                       /\ table'[last'.rid].pos = to]_vars

\* C19 amended: Start with a non-negative offset sets the position to the
\* offset; Start with a negative offset fails with an I/O error and leaves
\* the position unchanged; Current gives the old position plus the offset
\* and End the file length plus the offset, failing with the position
\* unchanged when the result is negative. A successful seek returns the new
\* position.
C19_SeekPositions ==
    [][(last'.op = "seek" /\ last'.result # "BadResourceId") =>
          LET res == table[last'.rid]
              offset == last'.args[1].offset
              whence == last'.args[1].whence
              to == CASE whence = "Start" -> offset
                      [] whence = "Current" -> res.pos + offset
                      [] whence = "End" -> Len(ResData(fs, res)) + offset
          IN IF to < 0
             THEN last'.result = "Io" /\ table'[last'.rid].pos = res.pos
             ELSE /\ last'.result = "Ok"
                  /\ last'.val = to
                  /\ table'[last'.rid].pos = to]_vars

\* a seek to Start with a negative offset has failed on a live handle
C19_Witness ==
    /\ last.op = "seek"
    /\ last.args[1].whence = "Start"
    /\ last.args[1].offset < 0
    /\ last.result = "Io"
    /\ last.rid \in DOMAIN table

\* C20: remove on an admitted path that is a directory. With recursive =
\* false it succeeds only when the directory is empty, the directory then
\* being gone; on a non-empty directory it fails with Io and the filesystem
\* is as before. With recursive = true it succeeds and the directory and
\* everything below it are gone.
C20_RemoveDirectory ==
    [][(/\ last'.op = "remove"
        /\ ArgAdmitted(last')
        /\ NativeSymlinkMetadata(fs, ArgPath(last'.args[1])).node.kind = "dir") =>
          LET q == LCanon(fs, ArgPath(last'.args[1])) IN
          IF last'.args[1].recursive
          THEN /\ last'.result = "Ok"
               /\ \A x \in {q} \cup Descendants(fs, q) : NodeAt(fs', x).kind = "none"
               /\ \A x \in DOMAIN fs : ~IsPrefix(q, x) => fs'[x] = fs[x]
          ELSE IF Children(fs, q) = {}
          THEN /\ last'.result = "Ok"
               /\ NodeAt(fs', q).kind = "none"
               /\ \A x \in DOMAIN fs : x # q => fs'[x] = fs[x]
          ELSE last'.result = "Io" /\ fs' = fs]_vars

\* a recursive remove of the documents directory has succeeded: the
\* directory, its files and its subdirectory with the file in it are gone
C20_Witness ==
    /\ last.op = "remove"
    /\ last.args[1].recursive
    /\ ArgPath(last.args[1]) = DOCS
    /\ last.result = "Ok"
    /\ \A x \in {DOCS, A_TXT, SECRET, X_TXT} : NodeAt(fs, x).kind = "none"

\* the entry the command's path names, its last component not followed
ArgEntry(l) == NativeSymlinkMetadata(fs, ArgPath(l.args[1]))

\* C21: remove on an admitted path that is a symbolic link succeeds for
\* every value of recursive and whatever the link points at; the link is
\* gone and every other entry of the filesystem, the target and everything
\* under it included, is as before.
C21_RemoveLinkKeepsTarget ==
    [][(/\ last'.op = "remove"
        /\ ArgAdmitted(last')
        /\ ArgEntry(last').ok
        /\ ArgEntry(last').node.kind = "symlink") =>
          LET q == ArgEntry(last').obj IN
          /\ last'.result = "Ok"
          /\ NodeAt(fs', q).kind = "none"
          /\ \A x \in DOMAIN fs : x # q => fs'[x] = fs[x]]_vars

\* a recursive remove of the link has succeeded through remove_dir_all: the
\* link is gone, /etc and the file in it and the entries next to the link
\* are still there
C21_Witness ==
    /\ last.op = "remove"
    /\ last.args[1].recursive
    /\ ArgPath(last.args[1]) = LINK
    /\ last.result = "Ok"
    /\ last.trace[Len(last.trace)].call = "fs::remove_dir_all"
    /\ NodeAt(fs, LINK).kind = "none"
    /\ NodeAt(fs, A_TXT).kind = "file"
    /\ NodeAt(fs, ETC).kind = "dir"
    /\ NodeAt(fs, PASSWD).kind = "file"
    /\ NodeAt(fs, B_TXT).kind = "other"

\* C22 as claimed: remove on an admitted path whose entry is neither a
\* regular file, a directory nor a symbolic link (a pipe, a socket, a
\* device) unlinks the entry as if it were a file, whatever the value of
\* recursive: the call succeeds and the entry is gone.
C22_RemoveOtherUnlinks ==
    [][(/\ last'.op = "remove"
        /\ ArgAdmitted(last')
        /\ ArgEntry(last').ok
        /\ ArgEntry(last').node.kind = "other") =>
          /\ last'.result = "Ok"
          /\ NodeAt(fs', ArgEntry(last').obj).kind = "none"]_vars

\* the path of the command names a symbolic link whose target is a regular
\* file
ArgLinkToFile(l) ==
    /\ ArgEntry(l).ok
    /\ ArgEntry(l).node.kind = "symlink"
    /\ NodeAt(fs, ArgEntry(l).node.target).kind = "file"

\* C23: on an admitted path that is a symbolic link to a regular file, stat
\* succeeds and reports the file (is_file, neither is_symlink nor
\* is_directory, the size of the file), lstat succeeds and reports the link
\* (is_symlink, neither is_file nor is_directory); both results are records
\* of the same fields.
C23_StatFollowsLstatDoesNot ==
    [][(last'.op \in {"stat", "lstat"} /\ ArgAdmitted(last') /\ ArgLinkToFile(last')) =>
          /\ last'.result = "Ok"
          /\ DOMAIN last'.val = {"is_file", "is_directory", "is_symlink", "size"}
          /\ ~last'.val.is_directory
          /\ last'.op = "stat" =>
                /\ last'.val.is_file /\ ~last'.val.is_symlink
                /\ last'.val.size = Len(NodeAt(fs, ArgEntry(last').node.target).data)
          /\ last'.op = "lstat" => (last'.val.is_symlink /\ ~last'.val.is_file)]_vars

\* stat of the link to /etc/passwd has returned the description of a file
C23_Witness ==
    /\ last.op = "stat"
    /\ ArgPath(last.args[1]) = LINK
    /\ ArgLinkToFile(last)
    /\ last.result = "Ok"
    /\ last.val.is_file

\* the entry of a listing for the child named name, the listing being a set
EntriesNamed(val, name) == {e \in val : e.name = name}

\* C24: a read_dir of an admitted directory that succeeds returns exactly
\* one entry per direct child of the directory and no other entry; in the
\* entry of a child, is_file and is_directory describe what the child is
\* after following links and is_symlink tells whether the child itself is a
\* symbolic link: a link to a directory has is_symlink and is_directory, a
\* real directory has is_directory without is_symlink.
C24_ReadDirListsChildren ==
    [][(last'.op = "read_dir" /\ last'.result = "Ok") =>
          LET q == Resolved(fs, ArgPath(last'.args[1]))
              kids == Children(fs, q)
          IN /\ {e.name : e \in last'.val} = {c[Len(c)] : c \in kids}
             /\ Cardinality(last'.val) = Cardinality(kids)
             /\ \A c \in kids : \A e \in EntriesNamed(last'.val, c[Len(c)]) :
                   LET at == NodeAt(fs, Resolved(fs, c)) IN
                   /\ e.is_symlink = (fs[c].kind = "symlink")
                   /\ e.is_file = (at.kind = "file")
                   /\ e.is_directory = (at.kind = "dir")]_vars

\* the documents directory has been listed while its link pointed at a
\* directory: the link's entry has is_symlink and is_directory, the entry of
\* the real subdirectory has is_directory only
C24_Witness ==
    /\ last.op = "read_dir"
    /\ last.result = "Ok"
    /\ ArgPath(last.args[1]) = DOCS
    /\ fs[LINK].kind = "symlink" /\ fs[LINK].target = ETC
    /\ \E e \in last.val : e.name = "link" /\ e.is_symlink /\ e.is_directory
    /\ \E e \in last.val : e.name = "secret" /\ ~e.is_symlink /\ e.is_directory

\* C25 as claimed: exists on a path that is not admitted or is malformed
\* returns the error; on an admitted path it returns Ok, and Ok(false) only
\* when the path does not exist, that is when following the path ends at no
\* entry. A path whose entry is there but cannot be examined (a directory
\* above it may not be traversed) is not reported as false.
C25_ExistsFalseOnlyWhenAbsent ==
    [][last'.op = "exists" =>
          IF ArgAdmitted(last')
          THEN /\ last'.result = "Ok"
               /\ last'.val = FALSE =>
                     NodeAt(fs, Resolved(fs, ArgPath(last'.args[1]))).kind = "none"
          ELSE last'.result \in {"PathForbidden", "InvalidPath"}]_vars

\* C26 as claimed: in every command other than exists, a native call that
\* fails makes the command return an error; in particular
\* read_text_file_lines_next returns an error when reading or decoding the
\* next line fails.
C26_NativeFailureIsAnError ==
    [][(last'.op # "exists" /\ \E i \in NativeEvents(last') : ~last'.trace[i].ok) =>
          last'.result # "Ok"]_vars

FileHandleOps == {"read", "write", "seek", "fstat", "ftruncate"}

\* the command received a live handle of the other kind: a file command a
\* line cursor, read_text_file_lines_next an open file
WrongKind(l) ==
    /\ l.rid \in DOMAIN table
    /\ \/ l.op \in FileHandleOps /\ table[l.rid].kind = "lines"
       \/ l.op = "read_text_file_lines_next" /\ table[l.rid].kind = "file"

\* C27: read, write, seek, fstat and ftruncate on a handle that holds a line
\* cursor, and read_text_file_lines_next on a handle that holds an open
\* file, fail with the bad-resource-id error without a native call; the
\* resource table, the position of the resource included, and the
\* filesystem are as before.
C27_LookupsAreKindChecked ==
    [][WrongKind(last') =>
          /\ last'.result = "BadResourceId"
          /\ NativeEvents(last') = {}
          /\ table' = table
          /\ fs' = fs]_vars

\* a write on the handle of a line cursor has been refused; the cursor is
\* still in the table
C27_Witness ==
    /\ last.op = "write"
    /\ last.rid \in DOMAIN table
    /\ table[last.rid].kind = "lines"
    /\ last.result = "BadResourceId"

\* a caller is in the native call of its command on rid
InNative(t, rid) == pc[t].at = "native" /\ pc[t].rid = rid

\* a caller has been called with a command on rid and cannot obtain the
\* handle from the table because u holds the table's guard
WaitsForTable(t, rid, u) ==
    /\ pc[t].at = "get"
    /\ pc[t].op \in ThreadOps
    /\ pc[t].rid = rid
    /\ tlock = u

\* C28 as claimed: no command on a live handle A is kept from progressing,
\* obtaining A from the table included, by a caller that is in the middle of
\* a native read on a different handle B.
C28_DifferentHandlesDoNotBlock ==
    \A t \in Threads, u \in Threads : \A a \in DOMAIN table, b \in DOMAIN table :
        (t # u /\ a # b) => ~(InNative(u, b) /\ WaitsForTable(t, a, u))

\* C29: at no time are two callers in a native call on the same resource,
\* and while a caller is in its native call on a resource no other caller
\* moves the position of that resource: the call sees and updates the
\* position as one step with respect to the other calls on the handle.
C29_SameHandleSerialized ==
    [][/\ \A t \in Threads, u \in Threads : \A rid \in 1..MaxRid :
             (InNative(t, rid)' /\ InNative(u, rid)') => t = u
       /\ \A t \in Threads : \A rid \in 1..MaxRid :
             (InNative(t, rid) /\ InNative(t, rid)') =>
                 /\ heap'[rid].owner = t
                 /\ heap'[rid].res.pos = heap[rid].res.pos
                 /\ heap'[rid].res.buf = heap[rid].res.buf]_vars

\* a caller is in its native call on a handle while another caller, holding
\* the same handle, waits for the resource's mutex
C29_Witness ==
    \E t \in Threads, u \in Threads :
        /\ t # u
        /\ InNative(t, pc[t].rid)
        /\ pc[u].at = "lock"
        /\ pc[u].rid = pc[t].rid

\* how many times the descriptor of rid has been released
Releases(h, rid) == Cardinality({i \in 1..Len(h) : h[i] = rid})

\* C30 as claimed: once a close of a handle has returned successfully (the
\* automatic close of a cursor at its end included) no native call is
\* started on the handle's file, whatever commands on the handle were under
\* way; the descriptor of a closed handle is released once when nothing
\* refers to the resource any more, and never twice.
C30_ClosedHandleUnusedReleasedOnce ==
    [][/\ \A t \in Threads :
             (pc[t].at = "lock" /\ pc'[t].at = "native") => pc[t].rid \notin closed
       /\ \A rid \in 1..MaxRid :
             /\ Releases(released', rid) <= 1
             /\ (rid \in closed' /\ rid \notin DOMAIN heap') =>
                    Releases(released', rid) = 1]_vars

----------------------------------------------------------------------------
(* resolve_path beside a caller that extends the baseline scope: the two
   lists of app.fs_scope() sit behind two mutexes, and resolve_path locks
   and clones one after the other *)

\* the baseline scope as it is now
ScopeState == <<allowed, denied>>

\* every state the baseline scope has had since the call began
Seen == IF rp.at = "idle" THEN {} ELSE rp.seen \cup {ScopeState'}

\* resolve_path is entered: the URL conversion and the base-directory join;
\* a URL that is no local file returns before any list is read
ResolveEnter(a) ==
    /\ rp.at = "idle"
    /\ IF file_url_to_safe_pathbuf(a.path).ok
       THEN /\ rp' = [NoResolve EXCEPT !.at = "allowed", !.arg = a, !.seen = {ScopeState}]
            /\ UNCHANGED last
       ELSE /\ Returned("resolve_path", Args1(a.path, a.base_dir), NoScope, NoScope, 0, <<>>,
                        "InvalidPath", <<>>)
            /\ UNCHANGED rp
    /\ UNCHANGED <<fs, allowed, denied, table, next_rid, closed>>
    /\ UNCHANGED <<ncalls, pc, tlock, heap, released, answers, wsvars>>

\* app.fs_scope().allowed.lock().unwrap().clone()
CloneAllowed ==
    /\ rp.at = "allowed"
    /\ rp' = [rp EXCEPT !.at = "denied", !.allow = allowed]
    /\ UNCHANGED <<fs, allowed, denied, table, next_rid, closed, last>>
    /\ UNCHANGED <<ncalls, pc, tlock, heap, released, answers, wsvars>>

\* app.fs_scope().denied.lock().unwrap().clone()
CloneDenied ==
    /\ rp.at = "denied"
    /\ rp' = [rp EXCEPT !.at = "built", !.deny = denied]
    /\ UNCHANGED <<fs, allowed, denied, table, next_rid, closed, last>>
    /\ UNCHANGED <<ncalls, pc, tlock, heap, released, answers, wsvars>>

\* Scope::new over the two clones, is_allowed, and the return
ResolveReturn ==
    /\ rp.at = "built"
    /\ LET u == file_url_to_safe_pathbuf(rp.arg.path)
           p == IF rp.arg.base_dir # "None" THEN PathResolve(u.path, rp.arg.base_dir) ELSE u.path
           allow == ScopeAllow(rp.allow, NoScope, NoScope)
           deny == ScopeDeny(rp.deny, NoScope, NoScope)
           admitted == is_allowed(allow, deny, p)
           r == [ok |-> admitted, err |-> IF admitted THEN "" ELSE "PathForbidden",
                 path |-> p, checked |-> TRUE, allow |-> allow, deny |-> deny]
       IN Returned("resolve_path", Args1(rp.arg.path, rp.arg.base_dir), NoScope, NoScope, 0,
                   ResolveTrace(r), IF admitted THEN "Ok" ELSE "PathForbidden", p)
    /\ rp' = NoResolve
    /\ UNCHANGED <<fs, allowed, denied, table, next_rid, closed>>
    /\ UNCHANGED <<ncalls, pc, tlock, heap, released, answers, wsvars>>

\* another caller extends one list of the baseline while the path is resolved
ExtendScope(pattern) ==
    /\ allow_path(pattern) \/ forbid_path(pattern)
    /\ rp' = [rp EXCEPT !.seen = Seen]
    /\ UNCHANGED <<ncalls, pc, tlock, heap, released, answers, wsvars>>

NextResolve ==
    \/ \E a \in ScopePathArgs : ResolveEnter(a)
    \/ CloneAllowed
    \/ CloneDenied
    \/ ResolveReturn
    \/ \E pattern \in ScopePatterns : ExtendScope(pattern) /\ Bounded'

SpecResolve == Init /\ [][NextResolve]_vars

\* C31: the allow list and the deny list resolve_path combines are the two
\* lists of one state the baseline scope has had during the call
C31_ScopeReadsDoNotTear ==
    rp.at = "built" => <<rp.allow, rp.deny>> \in rp.seen

----------------------------------------------------------------------------
(* to_msec: the timestamps of a stat. A SystemTime is the platform's
   timespec, a signed 64-bit count of seconds and the nanoseconds above it;
   64-bit and 128-bit words are sequences of 16-bit limbs *)

NanosPerSec == 1000000000

NanosPerMilli == 1000000

MillisPerSec == 1000

\* the bitwise complement of a word
Not64(w) == [i \in 1..Len(w) |-> Limb - 1 - w[i]]

\* w * k + c on a word of Len(w) limbs
RECURSIVE MulAdd(_, _, _)
MulAdd(w, k, c) ==
    IF w = <<>> THEN <<>>
    ELSE LET x == Head(w) * k + c IN <<x % Limb>> \o MulAdd(Tail(w), k, x \div Limb)

\* the seconds of a timespec are negative
SecNegative(sec) == sec[4] >= Limb \div 2

\* time.duration_since(UNIX_EPOCH): Ok(the duration since the epoch), or
\* Err(the duration up to the epoch) for a time before it
duration_since(time) ==
    IF ~SecNegative(time.sec)
    THEN [ok |-> TRUE, secs |-> time.sec, nanos |-> time.nsec]
    ELSE IF time.nsec = 0
         THEN [ok |-> FALSE, secs |-> MulAdd(Not64(time.sec), 1, 1), nanos |-> 0]
         ELSE [ok |-> FALSE, secs |-> Not64(time.sec), nanos |-> NanosPerSec - time.nsec]

\* Duration::as_millis: a u128
as_millis(d) == MulAdd(d.secs \o <<0, 0, 0, 0>>, MillisPerSec, d.nanos \div NanosPerMilli)

\* `as u64` of a u128: the low 64 bits
U128AsU64(w) == SubSeq(w, 1, 4)

\* to_msec (to_msecErrIsZero: unwrap_or_default on the platform's answer)
to_msecErrIsZero(maybe_time) ==
    IF maybe_time.ok
    THEN [some |-> TRUE, msec |-> U128AsU64(as_millis(duration_since(maybe_time.time)))]
    ELSE [some |-> TRUE, msec |-> <<0, 0, 0, 0>>]

to_msec(maybe_time) ==
    IF maybe_time.ok
    THEN [some |-> TRUE, msec |-> U128AsU64(as_millis(duration_since(maybe_time.time)))]
    ELSE [some |-> FALSE, msec |-> <<>>]

\* the timespec of the epoch plus (or, before, minus) secs seconds and nsec
\* nanoseconds
Stamp(before, secs, nsec) ==
    IF ~before THEN [sec |-> secs, nsec |-> nsec]
    ELSE IF nsec = 0 THEN [sec |-> MulAdd(Not64(secs), 1, 1), nsec |-> 0]
         ELSE [sec |-> Not64(secs), nsec |-> NanosPerSec - nsec]

\* what metadata.modified(), accessed() and created() answer
TimeOk(time) == [ok |-> TRUE, time |-> time]

TimeErr == [ok |-> FALSE, time |-> <<>>]

\* distances from the epoch: seconds up to 2^63 - 1, on both sides of 2^54
StampSecs ==
    {<<a, b, b, e>> : a \in {0, 1, Limb - 1}, b \in {0, Limb - 1}, e \in {0, 63, 66, Limb \div 2 - 1}}

StampNanos == {0, NanosPerMilli - 1, NanosPerMilli, NanosPerSec - NanosPerMilli, NanosPerSec - 1}

MaybeTimes ==
    {TimeErr} \cup {TimeOk(Stamp(b, s, n)) : b \in BOOLEAN, s \in StampSecs, n \in StampNanos}

\* one timestamp of a stat is converted
to_msecCall(maybe_time) ==
    /\ Returned("to_msec", <<maybe_time>>, NoScope, NoScope, 0, <<>>, "Ok", to_msec(maybe_time))
    /\ UNCHANGED <<fs, allowed, denied, table, next_rid, closed>>
    /\ UNCHANGED <<ncalls, pc, tlock, heap, released, beyond>>

NextTime ==
    \/ Idle /\ \E m \in MaybeTimes : to_msecCall(m)
    \/ Deliver

SpecTime == Init /\ [][NextTime]_vars

\* w divided by a small k: the quotient and the remainder
RECURSIVE DivRem(_, _)
DivRem(w, k) ==
    IF w = <<>> THEN [q |-> <<>>, r |-> 0]
    ELSE LET hi == DivRem(Tail(w), k)
             x == hi.r * Limb + Head(w)
         IN [q |-> <<x \div k>> \o hi.q, r |-> x % k]

\* the timestamp just converted lies secs seconds and nsec nanoseconds from
\* the epoch
Converted(before, secs, nsec) ==
    /\ last.op = "to_msec"
    /\ last.args[1] = TimeOk(Stamp(before, secs, nsec))

\* the result is the whole milliseconds of that distance
WholeMillis(secs, nsec) ==
    /\ last.val.some
    /\ DivRem(last.val.msec, MillisPerSec) = [q |-> secs, r |-> nsec \div NanosPerMilli]

\* C32 as stated: every timestamp becomes its whole milliseconds from the epoch
C32_EveryTimestampInMilliseconds ==
    \A b \in BOOLEAN, s \in StampSecs, n \in StampNanos :
        Converted(b, s, n) => WholeMillis(s, n)

\* C32: a timestamp less than 2^54 seconds from the epoch becomes its whole
\* milliseconds from the epoch, the same before and after the epoch; any
\* timestamp before the epoch gets the result of its mirror image after it;
\* a timestamp the platform cannot report is None
C32_TimestampsInMilliseconds ==
    /\ \A b \in BOOLEAN, s \in StampSecs, n \in StampNanos :
           Converted(b, s, n) =>
               /\ s[4] < 64 => WholeMillis(s, n)
               /\ last.val = to_msec(TimeOk(Stamp(~b, s, n)))
    /\ (last.op = "to_msec" /\ last.args[1] = TimeErr) => ~last.val.some

C32_Witness ==
    /\ Converted(TRUE, <<Limb - 1, 0, 0, 63>>, NanosPerMilli - 1)
    /\ WholeMillis(<<Limb - 1, 0, 0, 63>>, NanosPerMilli - 1)
    /\ last.val.msec # <<0, 0, 0, 0>>

----------------------------------------------------------------------------
(* Lengths: a file of any content is truncated and extended, by path and
   through handles opened for reading or for writing *)

TruncateContents == UNION {[1..n -> {1, 2}] : n \in 0..MaxBytes}

InitTruncate ==
    /\ \E d \in TruncateContents : fs = [InitFs EXCEPT ![A_TXT] = FileNode(d)]
    /\ allowed = <<DOCS>>
    /\ denied = <<SECRET>>
    /\ table = <<>>
    /\ next_rid = 1
    /\ closed = {}
    /\ last = NoLast
    /\ ncalls = 0
    /\ NoThreads

\* an existing file, a missing file, a directory, a file outside the scope
TruncatePathArgs ==
    {Arg(A_TXT, "None"), Arg(<<"docs", "b.txt">>, "Home"), Arg(DOCS, "None"), Arg(PASSWD, "None")}

\* len: None, or a length
TruncateLens == -1..MaxBytes

NextTruncate ==
    \/ /\ Idle
       /\ \E a \in TruncatePathArgs, len \in TruncateLens :
             truncate(a.path, a.base_dir, len, NoScope, NoScope)
       /\ UNCHANGED <<ncalls, pc, tlock, heap, released, beyond>>
    \/ /\ Idle
       /\ \E o \in {NoOptions, ReadWrite} : open(A_TXT, o, NoScope, NoScope)
       /\ BoundedFiles'
       /\ UNCHANGED <<ncalls, pc, tlock, heap, released, beyond>>
    \/ /\ Idle
       /\ \E rid \in Rids, len \in TruncateLens : ftruncate(rid, len)
       /\ UNCHANGED <<ncalls, pc, tlock, heap, released, beyond>>
    \/ Deliver

SpecTruncate == InitTruncate /\ [][NextTruncate]_vars

\* the length a truncation asks for
AskedLen(l) == IF l.args[1].len < 0 THEN 0 ELSE l.args[1].len

\* new has n bytes, the first of them those of old
CutTo(old, new, n) ==
    /\ Len(new) = n
    /\ \A i \in 1..Min(Len(old), n) : new[i] = old[i]

\* only the bytes of the file at q may differ between f and g
OnlyDataOf(q, f, g) ==
    /\ \A p \in DOMAIN f \ {q} : g[p] = f[p]
    /\ g[q] = [f[q] EXCEPT !.data = g[q].data]

\* C33: a truncate or ftruncate that succeeds leaves the file with the length
\* asked for (0 for None) and the first min(old, new) bytes it had, and
\* nothing else changed; one that fails changes nothing; truncate on a path
\* that names nothing fails and creates nothing; the handles are as before.
C33_TruncateSetsLength ==
    [][(last'.op \in {"truncate", "ftruncate"}) =>
          /\ table' = table /\ next_rid' = next_rid /\ closed' = closed
          /\ last'.result # "Ok" => fs' = fs
          /\ (last'.op = "truncate" /\ ~ArgExists(last')) =>
                 last'.result # "Ok" /\ fs' = fs
          /\ (last'.op = "truncate" /\ last'.result = "Ok") =>
                 LET q == Canon(fs, ArgPath(last'.args[1])) IN
                 /\ fs[q].kind = "file"
                 /\ CutTo(fs[q].data, fs'[q].data, AskedLen(last'))
                 /\ OnlyDataOf(q, fs, fs')
          /\ (last'.op = "ftruncate" /\ last'.result = "Ok") =>
                 LET q == table[last'.rid].obj IN
                 /\ CutTo(fs[q].data, fs'[q].data, AskedLen(last'))
                 /\ OnlyDataOf(q, fs, fs')]_vars

C33_Witness ==
    /\ last.op = "ftruncate"
    /\ last.result = "Ok"
    /\ last.args[1].len = 1
    /\ fs[A_TXT].data = <<2>>
    /\ DOMAIN table = {1, 2}

----------------------------------------------------------------------------
(* The locks: every handle command of the plugin, from concurrent callers *)

\* calls the callers make in all
MaxLockCalls == 3

\* the file the handles are opened on is empty or holds one line
InitLocks ==
    /\ \E d \in {<<>>, <<0>>} : fs = [InitFs EXCEPT ![A_TXT] = FileNode(d)]
    /\ allowed = <<DOCS>>
    /\ denied = <<SECRET>>
    /\ table = <<>>
    /\ next_rid = 1
    /\ closed = {}
    /\ last = NoLast
    /\ ncalls = 0
    /\ NoThreads

LockOps == FileThreadOps \cup {"read_text_file_lines_next", "close"}

NextLocks ==
    \/ (\E t \in Threads, op \in LockOps, rid \in 1..Min(next_rid, MaxRid) : Invoke(t, op, rid))
          /\ ncalls < MaxLockCalls /\ UNCHANGED beyond
    \/ (\E t \in Threads, op \in AddThreadOps : Invoke(t, op, 0))
          /\ ncalls < MaxLockCalls /\ UNCHANGED beyond
    \/ (\E t \in Threads : Add(t) /\ next_rid' <= MaxRid + 1) /\ UNCHANGED beyond
    \/ (\E t \in Threads : Get(t)) /\ UNCHANGED beyond
    \/ (\E t \in Threads : GetLines(t)) /\ UNCHANGED beyond
    \/ (\E t \in Threads : Lock(t)) /\ UNCHANGED beyond
    \/ (\E t \in Threads : Native(t) /\ Bounded') /\ UNCHANGED beyond
    \/ (\E t \in Threads : NativeLines(t)) /\ UNCHANGED beyond
    \/ (\E t \in Threads : Close(t)) /\ UNCHANGED beyond

SpecLocks == InitLocks /\ [][NextLocks]_vars

\* t waits for the guard of the resource table
WantsTable(t) == pc[t].at = "get"

\* t holds the mutex of a resource
HoldsResource(t) == \E rid \in DOMAIN heap : heap[rid].owner = t

\* the lock the next statement of caller t needs can be taken
CanStep(t) ==
    CASE pc[t].at = "get" -> TableFree
      [] pc[t].at = "lock" -> MutexFree(t)
      [] pc[t].at = "native" ->
           (/\ pc[t].op = "read_text_file_lines_next"
            /\ LinesNext(heap[pc[t].rid].res, ResData(fs, heap[pc[t].rid].res)).eof)
               => HoldsTable(t)
      [] OTHER -> FALSE

\* C36: no caller that holds the mutex of a resource waits for the guard of
\* the table, and while any command is running some command can take its
\* next step.
C36_NoDeadlock ==
    /\ \A t \in Threads : ~(HoldsResource(t) /\ WantsTable(t))
    /\ (\E t \in Threads : pc[t].at # "idle") => \E t \in Threads : CanStep(t)

\* a cursor reaches the end of its file, and closes its handle, while
\* another caller waits for the table
C36_Witness ==
    /\ last.op = "read_text_file_lines_next"
    /\ last.result = "Ok"
    /\ last.val.done
    /\ last.rid \in closed
    /\ \E t \in Threads : WantsTable(t) /\ pc[t].op \in FileThreadOps

----------------------------------------------------------------------------
(* One cursor, many callers: a text file of any lines is opened with
   read_text_file_lines and concurrent callers advance its cursors *)

\* calls the callers make in all
MaxNextCalls == 5

\* a letter and the line feed
CursorContents == UNION {[1..n -> {97, Newline}] : n \in 0..MaxLineBytes}

InitCursor ==
    /\ \E d \in CursorContents : fs = [InitFs EXCEPT ![A_TXT] = FileNode(d)]
    /\ allowed = <<DOCS>>
    /\ denied = <<SECRET>>
    /\ table = <<>>
    /\ next_rid = 1
    /\ closed = {}
    /\ last = NoLast
    /\ ncalls = 0
    /\ NoThreads

\* the response of a command that returns is appended to the history
Answered ==
    /\ answers' = IF \E t \in Threads : pc[t].at # "idle" /\ pc'[t].at = "idle"
                  THEN Append(answers, last')
                  ELSE answers
    /\ UNCHANGED <<rp, wsvars>>

NextCursor ==
    \/ (\E t \in Threads, rid \in 1..Min(next_rid, MaxRid) :
            Invoke(t, "read_text_file_lines_next", rid))
          /\ ncalls < MaxNextCalls /\ Answered
    \/ (\E t \in Threads : Invoke(t, "read_text_file_lines", 0))
          /\ ncalls < MaxNextCalls /\ Answered
    \/ (\E t \in Threads : Add(t) /\ next_rid' <= MaxRid + 1) /\ Answered
    \/ (\E t \in Threads : GetLines(t)) /\ Answered
    \/ (\E t \in Threads : Lock(t)) /\ Answered
    \/ (\E t \in Threads : NativeLines(t)) /\ Answered

SpecCursor == InitCursor /\ [][NextCursor]_vars

\* the answers of the calls on the cursor rid, as positions of the history
CursorAnswers(rid) ==
    {i \in 1..Len(answers) :
        answers[i].op = "read_text_file_lines_next" /\ answers[i].rid = rid}

\* the answer delivers a line; the answer is (none, true)
IsLine(a) == a.result = "Ok" /\ ~a.val.done

IsDone(a) == a.result = "Ok" /\ a.val.done

\* the lines the cursor rid has delivered up to position i of the history
LinesUpTo(rid, i) == {j \in CursorAnswers(rid) : j <= i /\ IsLine(answers[j])}

\* read_text_file_lines has answered with rid before position i
OpenedBefore(rid, i) ==
    \E j \in 1..(i - 1) : /\ answers[j].op = "read_text_file_lines"
                          /\ answers[j].result = "Ok"
                          /\ answers[j].val = rid

DoneBefore(rid, i) == \E j \in CursorAnswers(rid) : j < i /\ IsDone(answers[j])

\* C37: of the calls on one cursor of a file of n lines, in the order they
\* complete, the k-th that delivers a line delivers line k of the file and
\* k <= n; (none, true) is answered once, after n lines; every call answered
\* after that, or before the cursor was opened, fails with BadResourceId,
\* and no other call does.
C37_EachLineOnce ==
    \A rid \in 1..MaxRid : \A i \in CursorAnswers(rid) :
        LET a == answers[i]
            d == fs[A_TXT].data
            k == Cardinality(LinesUpTo(rid, i))
        IN /\ IsLine(a) => /\ k <= NumLines(d)
                           /\ a.val.some
                           /\ a.val.line = LineOf(d, k)
           /\ IsDone(a) => /\ k = NumLines(d)
                           /\ ~a.val.some
                           /\ ~DoneBefore(rid, i)
           /\ a.result # "Ok" <=> (~OpenedBefore(rid, i) \/ DoneBefore(rid, i))
           /\ a.result # "Ok" => a.result = "BadResourceId"

\* two lines, the end and a failure on one cursor
C37_Witness ==
    /\ NumLines(fs[A_TXT].data) = 2
    /\ Len(answers) = 5
    /\ CursorAnswers(1) = 2..5
    /\ IsLine(answers[2]) /\ IsLine(answers[3]) /\ answers[2].val.line # answers[3].val.line
    /\ IsDone(answers[4])
    /\ answers[5].result = "BadResourceId"

----------------------------------------------------------------------------
(* The window-state plugin: the state of windows is cached while the
   application runs, saved to a file at exit and restored at the next start.
   Sizes are logical sizes at scale factor 1. *)

\* StateFlags
SIZE == 1

POSITION == 2

MAXIMIZED == 4

VISIBLE == 8

DECORATIONS == 16

FULLSCREEN == 32

\* StateFlags::all()
AllFlags == SIZE + POSITION + MAXIMIZED + VISIBLE + DECORATIONS + FULLSCREEN

StateFlag == {SIZE, POSITION, MAXIMIZED, VISIBLE, DECORATIONS, FULLSCREEN}

\* flags.contains(flag) for one flag
Contains(flags, flag) == (flags \div flag) % 2 = 1

\* StateFlags::from_bits: None when a bit that is no flag is set
from_bitsTruncate(bits) == [some |-> TRUE, flags |-> bits % (2 * FULLSCREEN)]

from_bits(bits) ==
    IF bits \div (2 * FULLSCREEN) = 0
    THEN [some |-> TRUE, flags |-> bits]
    ELSE [some |-> FALSE, flags |-> 0]

\* WindowState::default()
DefaultState ==
    [width |-> 0, height |-> 0, x |-> 0, y |-> 0, prev_x |-> 0, prev_y |-> 0,
     maximized |-> FALSE, visible |-> TRUE, decorated |-> TRUE, fullscreen |-> FALSE]

\* available_monitors(): two monitors side by side
Monitors ==
    {[x |-> 0, y |-> 0, width |-> 2, height |-> 2], [x |-> 2, y |-> 0, width |-> 2, height |-> 2]}

\* MonitorExt::intersects: a corner of the rectangle lies on the monitor
intersects(m, position, size) ==
    \E c \in {<<position[1], position[2]>>, <<position[1] + size[1], position[2]>>,
              <<position[1], position[2] + size[2]>>,
              <<position[1] + size[1], position[2] + size[2]>>} :
        /\ c[1] >= m.x /\ c[1] < m.x + m.width
        /\ c[2] >= m.y /\ c[2] < m.y + m.height

\* the monitor the window system maximizes a window on
MonitorOf(w) ==
    IF \E m \in Monitors : intersects(m, <<w.x, w.y>>, <<0, 0>>)
    THEN CHOOSE m \in Monitors : intersects(m, <<w.x, w.y>>, <<0, 0>>)
    ELSE CHOOSE m \in Monitors : m.x = 0

\* a call of the window's API, in the order made
WinEv(call, label, value) == NativeEv(call, <<label>>, value, TRUE)

\* Window::maximize: the window fills its monitor
maximize(w) ==
    LET m == MonitorOf(w) IN
    IF w.maximized THEN w
    ELSE [w EXCEPT !.maximized = TRUE, !.x = m.x, !.y = m.y,
                   !.width = m.width, !.height = m.height]

\* Window::set_position; normal is history: where the window last was while
\* it was not maximized
set_position(w, x, y) ==
    [w EXCEPT !.x = x, !.y = y,
              !.normal = IF w.maximized THEN @ ELSE <<x, y>>]

\* update_state: the flagged aspects of the window written to the state
\* (update_stateWhileMaximized: the position and size taken even from a
\* maximized window)
update_stateWhileMaximized(label, w, state, flags) ==
    LET reads == Contains(flags, MAXIMIZED) \/ Contains(flags, SIZE)
        is_maximized == FALSE
        s1 == IF Contains(flags, MAXIMIZED) THEN [state EXCEPT !.maximized = w.maximized] ELSE state
        s2 == IF Contains(flags, FULLSCREEN) THEN [s1 EXCEPT !.fullscreen = w.fullscreen] ELSE s1
        s3 == IF Contains(flags, DECORATIONS) THEN [s2 EXCEPT !.decorated = w.decorated] ELSE s2
        s4 == IF Contains(flags, VISIBLE) THEN [s3 EXCEPT !.visible = w.visible] ELSE s3
        s5 == IF Contains(flags, SIZE) /\ w.width > 0 /\ w.height > 0 /\ ~is_maximized
              THEN [s4 EXCEPT !.width = w.width, !.height = w.height] ELSE s4
        s6 == IF Contains(flags, POSITION) /\ ~is_maximized
              THEN [s5 EXCEPT !.x = w.x, !.y = w.y] ELSE s5
    IN [state |-> s6,
        trace |-> (IF reads THEN <<WinEv("is_maximized", label, w.maximized)>> ELSE <<>>)
                  \o (IF Contains(flags, FULLSCREEN)
                      THEN <<WinEv("is_fullscreen", label, w.fullscreen)>> ELSE <<>>)
                  \o (IF Contains(flags, DECORATIONS)
                      THEN <<WinEv("is_decorated", label, w.decorated)>> ELSE <<>>)
                  \o (IF Contains(flags, VISIBLE)
                      THEN <<WinEv("is_visible", label, w.visible)>> ELSE <<>>)
                  \o (IF Contains(flags, SIZE)
                      THEN <<WinEv("inner_size", label, <<w.width, w.height>>)>> ELSE <<>>)
                  \o (IF Contains(flags, POSITION) /\ ~is_maximized
                      THEN <<WinEv("outer_position", label, <<w.x, w.y>>)>> ELSE <<>>)]

update_state(label, w, state, flags) ==
    LET reads == Contains(flags, MAXIMIZED) \/ Contains(flags, SIZE)
        is_maximized == IF reads THEN w.maximized ELSE FALSE
        s1 == IF Contains(flags, MAXIMIZED) THEN [state EXCEPT !.maximized = is_maximized] ELSE state
        s2 == IF Contains(flags, FULLSCREEN) THEN [s1 EXCEPT !.fullscreen = w.fullscreen] ELSE s1
        s3 == IF Contains(flags, DECORATIONS) THEN [s2 EXCEPT !.decorated = w.decorated] ELSE s2
        s4 == IF Contains(flags, VISIBLE) THEN [s3 EXCEPT !.visible = w.visible] ELSE s3
        s5 == IF Contains(flags, SIZE) /\ w.width > 0 /\ w.height > 0 /\ ~is_maximized
              THEN [s4 EXCEPT !.width = w.width, !.height = w.height] ELSE s4
        s6 == IF Contains(flags, POSITION) /\ ~is_maximized
              THEN [s5 EXCEPT !.x = w.x, !.y = w.y] ELSE s5
    IN [state |-> s6,
        trace |-> (IF reads THEN <<WinEv("is_maximized", label, w.maximized)>> ELSE <<>>)
                  \o (IF Contains(flags, FULLSCREEN)
                      THEN <<WinEv("is_fullscreen", label, w.fullscreen)>> ELSE <<>>)
                  \o (IF Contains(flags, DECORATIONS)
                      THEN <<WinEv("is_decorated", label, w.decorated)>> ELSE <<>>)
                  \o (IF Contains(flags, VISIBLE)
                      THEN <<WinEv("is_visible", label, w.visible)>> ELSE <<>>)
                  \o (IF Contains(flags, SIZE)
                      THEN <<WinEv("inner_size", label, <<w.width, w.height>>)>> ELSE <<>>)
                  \o (IF Contains(flags, POSITION) /\ ~is_maximized
                      THEN <<WinEv("outer_position", label, <<w.x, w.y>>)>> ELSE <<>>)]

\* the entry of a map, the map with an entry put, the map without an entry
Put(map, key, value) == [k \in DOMAIN map \cup {key} |-> IF k = key THEN value ELSE map[k]]

Without(map, key) == [k \in DOMAIN map \ {key} |-> map[k]]

\* the position restore_state moves a window to: the one from before the
\* maximization when the state is that of a maximized window
Restored(state) ==
    IF state.maximized THEN <<state.prev_x, state.prev_y>> ELSE <<state.x, state.y>>

\* restore_state, a cache entry found that is not the default: the flagged
\* aspects of the entry applied to the window, the position once for every
\* monitor the saved rectangle intersects
ApplyState(label, w, state, flags) ==
    LET hits == Cardinality({m \in Monitors :
                    intersects(m, <<state.x, state.y>>, <<state.width, state.height>>)})
        onMonitor == hits > 0
        to == Restored(state)
        w1 == IF Contains(flags, DECORATIONS) THEN [w EXCEPT !.decorated = state.decorated] ELSE w
        w2 == IF Contains(flags, SIZE)
              THEN [w1 EXCEPT !.width = state.width, !.height = state.height] ELSE w1
        w3 == IF Contains(flags, POSITION) /\ onMonitor THEN set_position(w2, to[1], to[2]) ELSE w2
        w4 == IF Contains(flags, MAXIMIZED) /\ state.maximized THEN maximize(w3) ELSE w3
        w5 == IF Contains(flags, FULLSCREEN) THEN [w4 EXCEPT !.fullscreen = state.fullscreen] ELSE w4
        w6 == IF Contains(flags, VISIBLE) /\ state.visible THEN [w5 EXCEPT !.visible = TRUE] ELSE w5
    IN [win |-> w6,
        trace |-> (IF Contains(flags, DECORATIONS)
                   THEN <<WinEv("set_decorations", label, state.decorated)>> ELSE <<>>)
                  \o (IF Contains(flags, SIZE)
                      THEN <<WinEv("set_size", label, <<state.width, state.height>>)>> ELSE <<>>)
                  \o (IF Contains(flags, POSITION)
                      THEN [i \in 1..hits |-> WinEv("set_position", label, to)] ELSE <<>>)
                  \o (IF Contains(flags, MAXIMIZED) /\ state.maximized
                      THEN <<WinEv("maximize", label, TRUE)>> ELSE <<>>)
                  \o (IF Contains(flags, FULLSCREEN)
                      THEN <<WinEv("set_fullscreen", label, state.fullscreen)>> ELSE <<>>)
                  \o (IF Contains(flags, VISIBLE) /\ state.visible
                      THEN <<WinEv("show", label, TRUE), WinEv("set_focus", label, TRUE)>>
                      ELSE <<>>)]

\* restore_state, no cache entry: the flagged aspects of the window, the
\* defaults for the others
CaptureState(label, w, flags) ==
    LET m1 == IF Contains(flags, SIZE)
              THEN [DefaultState EXCEPT !.width = w.width, !.height = w.height] ELSE DefaultState
        m2 == IF Contains(flags, POSITION) THEN [m1 EXCEPT !.x = w.x, !.y = w.y] ELSE m1
        m3 == IF Contains(flags, MAXIMIZED) THEN [m2 EXCEPT !.maximized = w.maximized] ELSE m2
        m4 == IF Contains(flags, VISIBLE) THEN [m3 EXCEPT !.visible = w.visible] ELSE m3
        m5 == IF Contains(flags, DECORATIONS) THEN [m4 EXCEPT !.decorated = w.decorated] ELSE m4
        m6 == IF Contains(flags, FULLSCREEN) THEN [m5 EXCEPT !.fullscreen = w.fullscreen] ELSE m5
    IN [state |-> m6,
        trace |-> (IF Contains(flags, SIZE)
                   THEN <<WinEv("inner_size", label, <<w.width, w.height>>)>> ELSE <<>>)
                  \o (IF Contains(flags, POSITION)
                      THEN <<WinEv("outer_position", label, <<w.x, w.y>>)>> ELSE <<>>)
                  \o (IF Contains(flags, MAXIMIZED)
                      THEN <<WinEv("is_maximized", label, w.maximized)>> ELSE <<>>)
                  \o (IF Contains(flags, VISIBLE)
                      THEN <<WinEv("is_visible", label, w.visible)>> ELSE <<>>)
                  \o (IF Contains(flags, DECORATIONS)
                      THEN <<WinEv("is_decorated", label, w.decorated)>> ELSE <<>>)
                  \o (IF Contains(flags, FULLSCREEN)
                      THEN <<WinEv("is_fullscreen", label, w.fullscreen)>> ELSE <<>>)]

\* WindowExt::restore_state on the window w of a label, under the cache c
\* (restore_stateAppliesDefault: without the test for the default state)
restore_stateAppliesDefault(label, w, c, flags) ==
    IF label \in DOMAIN c
    THEN LET a == ApplyState(label, w, c[label], flags)
         IN [win |-> a.win, cache |-> c, trace |-> a.trace]
    ELSE LET m == CaptureState(label, w, flags)
             shown == Contains(flags, VISIBLE)
         IN [win |-> IF shown THEN [w EXCEPT !.visible = TRUE] ELSE w,
             cache |-> Put(c, label, m.state),
             trace |-> m.trace \o (IF shown
                                   THEN <<WinEv("show", label, TRUE), WinEv("set_focus", label, TRUE)>>
                                   ELSE <<>>)]

restore_state(label, w, c, flags) ==
    IF label \in DOMAIN c
    THEN IF c[label] = DefaultState
         THEN [win |-> w, cache |-> c, trace |-> <<>>]
         ELSE LET a == ApplyState(label, w, c[label], flags)
              IN [win |-> a.win, cache |-> c, trace |-> a.trace]
    ELSE LET m == CaptureState(label, w, flags)
             shown == Contains(flags, VISIBLE)
         IN [win |-> IF shown THEN [w EXCEPT !.visible = TRUE] ELSE w,
             cache |-> Put(c, label, m.state),
             trace |-> m.trace \o (IF shown
                                   THEN <<WinEv("show", label, TRUE), WinEv("set_focus", label, TRUE)>>
                                   ELSE <<>>)]

\* the labels of a map in a fixed order, for the loop of save_window_state
RECURSIVE InOrder(_)
InOrder(labels) ==
    IF labels = {} THEN <<>>
    ELSE LET l == CHOOSE l \in labels : TRUE IN <<l>> \o InOrder(labels \ {l})

\* AppHandleExt::save_window_state: every cached state whose window exists is
\* updated, then the cache is written to the state file
RECURSIVE UpdateAll(_, _, _, _)
UpdateAll(labels, ws, c, flags) ==
    IF labels = <<>> THEN [cache |-> c, trace |-> <<>>]
    ELSE LET l == Head(labels)
             u == update_state(l, ws[l], c[l], flags)
             here == IF l \in DOMAIN ws THEN [cache |-> Put(c, l, u.state), trace |-> u.trace]
                     ELSE [cache |-> c, trace |-> <<>>]
             more == UpdateAll(Tail(labels), ws, here.cache, flags)
         IN [cache |-> more.cache, trace |-> here.trace \o more.trace]

save_window_state(ws, c, flags) ==
    LET u == UpdateAll(InOrder(DOMAIN c), ws, c, flags)
    IN [cache |-> u.cache, disk |-> <<u.cache>>,
        trace |-> u.trace \o <<NativeEv("File::create", <<".window-state.json">>, u.cache, TRUE)>>]

\* ---- the plugin's handlers ----

Labels == {"main", "splash"}

\* Builder: the state flags, with_denylist(&["splash"]), skip_initial_state
PluginFlags == {AllFlags, SIZE, POSITION + MAXIMIZED, VISIBLE + DECORATIONS + FULLSCREEN}

Configs == [flags : PluginFlags, denylist : {{"splash"}}, skip : {{}, {"main"}}]

\* the windows the application creates: tracked is whether the plugin has
\* registered its event handler on the window
WindowA ==
    [x |-> 1, y |-> 1, width |-> 1, height |-> 1, maximized |-> FALSE, visible |-> TRUE,
     decorated |-> TRUE, fullscreen |-> FALSE, tracked |-> FALSE, normal |-> <<1, 1>>]

WindowB ==
    [x |-> 3, y |-> 1, width |-> 1, height |-> 1, maximized |-> FALSE, visible |-> FALSE,
     decorated |-> FALSE, fullscreen |-> TRUE, tracked |-> FALSE, normal |-> <<3, 1>>]

NewWindows == {WindowA, WindowB}

\* where a user moves a window: on either monitor or off both
Points == {<<0, 0>>, <<1, 1>>, <<2, 0>>, <<3, 1>>, <<4, 0>>}

Corners == {<<m.x, m.y>> : m \in Monitors}

\* the u32 of the flags argument of a command: no flag, one flag, all flags,
\* and two values with a bit that is no flag
InvalidBits == {2 * FULLSCREEN, 2 * FULLSCREEN + POSITION}

CmdBits == {0, AllFlags} \cup StateFlag \cup InvalidBits

\* events of the window system and commands in all
MaxEvents == 4

\* what every handler of the plugin leaves alone, and the count of events
Event ==
    /\ ncalls' = ncalls + 1
    /\ UNCHANGED <<fs, allowed, denied, table, next_rid, closed>>
    /\ UNCHANGED <<pc, tlock, heap, released, rp, answers>>

WinReturned(op, args, trace, result) ==
    Returned(op, args, NoScope, NoScope, 0, trace, result, 0)

\* setup: the cache is read from the state file when there is one
Start(config) ==
    /\ ~running
    /\ plugin = <<>> \/ plugin = <<config>>
    /\ Event
    /\ plugin' = <<config>>
    /\ running' = TRUE
    /\ windows' = <<>>
    /\ cache' = IF disk = <<>> THEN <<>> ELSE disk[1]
    /\ UNCHANGED disk
    /\ WinReturned("setup", <<config>>, <<>>, "Ok")

\* on_window_ready
WindowReady(label, w) ==
    /\ running
    /\ label \notin DOMAIN windows
    /\ Event
    /\ LET config == plugin[1]
           r == IF label \in config.skip
                THEN [win |-> w, cache |-> cache, trace |-> <<>>]
                ELSE restore_state(label, w, cache, config.flags)
       IN IF label \in config.denylist
          THEN /\ windows' = Put(windows, label, w)
               /\ UNCHANGED cache
               /\ WinReturned("on_window_ready", <<label, w>>, <<>>, "Ok")
          ELSE /\ windows' = Put(windows, label, [r.win EXCEPT !.tracked = TRUE])
               /\ cache' = IF label \in DOMAIN r.cache THEN r.cache
                           ELSE Put(r.cache, label, DefaultState)
               /\ WinReturned("on_window_ready", <<label, w>>, r.trace, "Ok")
    /\ UNCHANGED <<plugin, running, disk>>

\* the handler of WindowEvent::Moved(position)
OnMoved(label, position) ==
    IF /\ windows[label].tracked
       /\ Contains(plugin[1].flags, POSITION)
       /\ label \in DOMAIN cache
    THEN cache' = [cache EXCEPT ![label] =
                      [@ EXCEPT !.prev_x = cache[label].x, !.prev_y = cache[label].y,
                                !.x = position[1], !.y = position[2]]]
    ELSE UNCHANGED cache

\* the user moves a window; a maximized one goes to another monitor and
\* stays maximized
Moved(label, position) ==
    /\ running
    /\ label \in DOMAIN windows
    /\ position # <<windows[label].x, windows[label].y>>
    /\ windows[label].maximized => position \in Corners
    /\ Event
    /\ windows' = [windows EXCEPT ![label] = set_position(@, position[1], position[2])]
    /\ OnMoved(label, position)
    /\ UNCHANGED <<plugin, running, disk>>
    /\ WinReturned("Moved", <<label, position>>, <<>>, "Ok")

\* the user maximizes a window: it is moved to the corner of its monitor,
\* and reported as moved when that is another position
Maximized(label) ==
    /\ running
    /\ label \in DOMAIN windows
    /\ ~windows[label].maximized
    /\ Event
    /\ LET w == maximize(windows[label])
       IN /\ windows' = [windows EXCEPT ![label] = w]
          /\ IF <<w.x, w.y>> # <<windows[label].x, windows[label].y>>
             THEN OnMoved(label, <<w.x, w.y>>)
             ELSE UNCHANGED cache
    /\ UNCHANGED <<plugin, running, disk>>
    /\ WinReturned("Maximized", <<label>>, <<>>, "Ok")

\* the handler of WindowEvent::CloseRequested, and the window closed
CloseRequested(label) ==
    /\ running
    /\ label \in DOMAIN windows
    /\ Event
    /\ LET u == update_state(label, windows[label], cache[label], plugin[1].flags)
       IN IF windows[label].tracked /\ label \in DOMAIN cache
          THEN /\ cache' = [cache EXCEPT ![label] = u.state]
               /\ WinReturned("CloseRequested", <<label>>, u.trace, "Ok")
          ELSE /\ UNCHANGED cache
               /\ WinReturned("CloseRequested", <<label>>, <<>>, "Ok")
    /\ windows' = Without(windows, label)
    /\ UNCHANGED <<plugin, running, disk>>

\* on_event(RunEvent::Exit): the state saved, the process gone
Exit ==
    /\ running
    /\ Event
    /\ LET s == save_window_state(windows, cache, plugin[1].flags)
       IN /\ disk' = s.disk
          /\ WinReturned("Exit", <<>>, s.trace, "Ok")
    /\ running' = FALSE
    /\ windows' = <<>>
    /\ cache' = <<>>
    /\ UNCHANGED plugin

\* cmd::save_window_state
CmdSave(bits) ==
    /\ running
    /\ Event
    /\ LET f == from_bits(bits)
           s == save_window_state(windows, cache, f.flags)
       IN IF ~f.some
          THEN /\ UNCHANGED <<cache, disk>>
               /\ WinReturned("save_window_state", <<bits>>, <<>>, "Invalid state flags bits")
          ELSE /\ cache' = s.cache
               /\ disk' = s.disk
               /\ WinReturned("save_window_state", <<bits>>, s.trace, "Ok")
    /\ UNCHANGED <<plugin, running, windows>>

\* cmd::restore_state
CmdRestore(label, bits) ==
    /\ running
    /\ Event
    /\ LET f == from_bits(bits)
           r == restore_state(label, windows[label], cache, f.flags)
       IN IF ~f.some
          THEN /\ UNCHANGED <<cache, windows>>
               /\ WinReturned("restore_state", <<label, bits>>, <<>>, "Invalid state flags bits")
          ELSE IF label \notin DOMAIN windows
          THEN /\ UNCHANGED <<cache, windows>>
               /\ WinReturned("restore_state", <<label, bits>>, <<>>,
                              "Couldn't find window with label")
          ELSE /\ cache' = r.cache
               /\ windows' = [windows EXCEPT ![label] = r.win]
               /\ WinReturned("restore_state", <<label, bits>>, r.trace, "Ok")
    /\ UNCHANGED <<plugin, running, disk>>

NextWindows ==
    \/ ncalls < MaxEvents /\ \E config \in Configs : Start(config)
    \/ ncalls < MaxEvents /\ \E label \in Labels, w \in NewWindows : WindowReady(label, w)
    \/ ncalls < MaxEvents /\ \E label \in Labels, position \in Points : Moved(label, position)
    \/ ncalls < MaxEvents /\ \E label \in Labels : Maximized(label)
    \/ ncalls < MaxEvents /\ \E label \in Labels : CloseRequested(label)
    \/ ncalls < MaxEvents /\ Exit
    \/ ncalls < MaxEvents /\ \E bits \in CmdBits : CmdSave(bits)
    \/ ncalls < MaxEvents /\ \E label \in Labels, bits \in CmdBits : CmdRestore(label, bits)

SpecWindows == Init /\ [][NextWindows]_vars

----------------------------------------------------------------------------
(* Claims about the window-state plugin *)

\* the calls of the window's API that change the window
Setters == {"set_decorations", "set_size", "set_position", "maximize", "set_fullscreen",
            "show", "set_focus"}

\* the labels the plugin was told not to track
Denylisted == IF plugin = <<>> THEN {} ELSE plugin[1].denylist

\* C34: a window whose label is in the denylist is never tracked or managed:
\* whatever events and commands have happened, the cache holds no entry for
\* the label, no saved state was applied to the window, and the state file
\* holds no state for it.
C34_DenylistedNeverManaged ==
    \A label \in Denylisted :
        /\ label \notin DOMAIN cache
        /\ disk # <<>> => label \notin DOMAIN disk[1]
        /\ \A i \in 1..Len(last.trace) :
               ~(last.trace[i].call \in Setters /\ last.trace[i].path = <<label>>)

\* a flags value with a bit outside the six state flags
HasUnknownBit(bits) == bits > AllFlags

\* C40: save_window_state and restore_state called with a flags value that
\* has a bit outside the six state flags fail, and so does restore_state for
\* a label that has no window; such a call leaves the cache, the state file
\* and every window as they were and calls nothing on any window.
C40_RejectedCommandsChangeNothing ==
    [][ /\ last'.op \in {"save_window_state", "restore_state"}
        /\ \/ HasUnknownBit(last'.args[Len(last'.args)])
           \/ last'.op = "restore_state" /\ last'.args[1] \notin DOMAIN windows
        => /\ last'.result # "Ok"
           /\ last'.trace = <<>>
           /\ UNCHANGED <<cache, disk, windows>> ]_vars

\* restore_state with an unknown bit, on a window that has a cached state
C40_Witness ==
    /\ last.op = "restore_state"
    /\ HasUnknownBit(last.args[2])
    /\ last.args[1] \in DOMAIN windows \cap DOMAIN cache
    /\ last.result = "Invalid state flags bits"

\* the properties of a window that restore_state may set
Props(w) ==
    [x |-> w.x, y |-> w.y, width |-> w.width, height |-> w.height, maximized |-> w.maximized,
     visible |-> w.visible, decorated |-> w.decorated, fullscreen |-> w.fullscreen]

\* the step is a call of restore_state on the window of the label: by the
\* command, or by on_window_ready for a window that is tracked and not skipped
ByCommand(label) ==
    last'.op = "restore_state" /\ last'.result = "Ok" /\ last'.args[1] = label

ByReady(label) ==
    /\ last'.op = "on_window_ready" /\ last'.args[1] = label
    /\ label \notin plugin[1].denylist \cup plugin[1].skip

\* the flags of that call and the window it is called on, as it was before
FlagsOfCall(label) == IF ByCommand(label) THEN last'.args[2] ELSE plugin[1].flags

WindowOfCall(label) == IF ByCommand(label) THEN windows[label] ELSE last'.args[2]

\* C39: restore_state never applies the default state: when the cache entry
\* of the window equals WindowState::default(), the call changes no property
\* of the window and leaves the cache unchanged; when there is no entry it
\* applies nothing from the cache (it sets no property, it only shows and
\* focuses the window when VISIBLE is set) and inserts an entry that holds
\* the window's current properties for the flagged aspects.
C39_DefaultStateNeverApplied ==
    [][ \A label \in Labels :
          ByCommand(label) \/ ByReady(label) =>
            LET w == WindowOfCall(label)
                f == FlagsOfCall(label)
                after == windows'[label]
            IN /\ label \in DOMAIN cache /\ cache[label] = DefaultState =>
                    /\ Props(after) = Props(w)
                    /\ cache' = cache
                    /\ last'.trace = <<>>
               /\ label \notin DOMAIN cache =>
                    /\ \A i \in 1..Len(last'.trace) :
                           last'.trace[i].call \in Setters =>
                               /\ last'.trace[i].call \in {"show", "set_focus"}
                               /\ Contains(f, VISIBLE)
                    /\ Props(after) = [Props(w) EXCEPT !.visible = @ \/ Contains(f, VISIBLE)]
                    /\ DOMAIN cache' = DOMAIN cache \cup {label}
                    /\ \A other \in DOMAIN cache : cache'[other] = cache[other]
                    /\ LET s == cache'[label]
                       IN /\ Contains(f, SIZE) => s.width = w.width /\ s.height = w.height
                          /\ Contains(f, POSITION) => s.x = w.x /\ s.y = w.y
                          /\ Contains(f, MAXIMIZED) => s.maximized = w.maximized
                          /\ Contains(f, VISIBLE) => s.visible = w.visible
                          /\ Contains(f, DECORATIONS) => s.decorated = w.decorated
                          /\ Contains(f, FULLSCREEN) => s.fullscreen = w.fullscreen ]_vars

\* restore_state with every flag, called on a window that differs from the
\* default state in each aspect while its cache entry is the default state
C39_Witness ==
    /\ last.op = "restore_state" /\ last.result = "Ok" /\ last.args = <<"main", AllFlags>>
    /\ "main" \in DOMAIN cache /\ cache["main"] = DefaultState
    /\ Props(windows["main"]) = Props(WindowB)

\* the aspect a call on the window belongs to
AspectOf(call) ==
    CASE call \in {"inner_size", "set_size"} -> SIZE
      [] call \in {"outer_position", "set_position"} -> POSITION
      [] call \in {"is_maximized", "maximize"} -> MAXIMIZED
      [] call \in {"is_visible", "show", "set_focus"} -> VISIBLE
      [] call \in {"is_decorated", "set_decorations"} -> DECORATIONS
      [] call \in {"is_fullscreen", "set_fullscreen"} -> FULLSCREEN

WindowCalls ==
    Setters \cup {"inner_size", "outer_position", "is_maximized", "is_visible", "is_decorated",
                  "is_fullscreen"}

\* the calls a step made on the window of a label
CallsOn(label) ==
    {last'.trace[i].call : i \in {j \in 1..Len(last'.trace) :
        last'.trace[j].call \in WindowCalls /\ last'.trace[j].path = <<label>>}}

\* the properties of a window and the fields of a cached state, by aspect
WFields(w, aspect) ==
    CASE aspect = SIZE -> <<w.width, w.height>>
      [] aspect = POSITION -> <<w.x, w.y>>
      [] aspect = MAXIMIZED -> <<w.maximized>>
      [] aspect = VISIBLE -> <<w.visible>>
      [] aspect = DECORATIONS -> <<w.decorated>>
      [] aspect = FULLSCREEN -> <<w.fullscreen>>

SFields(s, aspect) ==
    IF aspect = POSITION THEN <<s.x, s.y, s.prev_x, s.prev_y>> ELSE WFields(s, aspect)

\* the step calls update_state for the label: the close handler, the
\* save_window_state command, or the save at exit
ByClose(label) ==
    /\ last'.op = "CloseRequested" /\ last'.args[1] = label
    /\ windows[label].tracked /\ label \in DOMAIN cache

BySave(label) ==
    /\ last'.op = "save_window_state" /\ last'.result = "Ok"
    /\ label \in DOMAIN cache \cap DOMAIN windows

ByExit(label) == last'.op = "Exit" /\ label \in DOMAIN cache \cap DOMAIN windows

UpdateFlags == IF last'.op = "save_window_state" THEN last'.args[1] ELSE plugin[1].flags

Updated(label) == IF last'.op = "Exit" THEN disk'[1][label] ELSE cache'[label]

\* update_state under the flags: strictly, only flagged aspects are read and
\* written; otherwise is_maximized may also be read when SIZE is set
UpdateRule(label, strict) ==
    LET f == UpdateFlags
        w == windows[label]
        old == cache[label]
        new == Updated(label)
    IN /\ \A call \in CallsOn(label) :
              \/ Contains(f, AspectOf(call))
              \/ ~strict /\ call = "is_maximized" /\ Contains(f, SIZE)
       /\ \A a \in StateFlag : ~Contains(f, a) => SFields(new, a) = SFields(old, a)
       /\ Contains(f, MAXIMIZED) => new.maximized = w.maximized
       /\ Contains(f, VISIBLE) => new.visible = w.visible
       /\ Contains(f, DECORATIONS) => new.decorated = w.decorated
       /\ Contains(f, FULLSCREEN) => new.fullscreen = w.fullscreen
       /\ w.maximized /\ (Contains(f, SIZE) \/ Contains(f, MAXIMIZED)) =>
              /\ SFields(new, SIZE) = SFields(old, SIZE)
              /\ SFields(new, POSITION) = SFields(old, POSITION)
       /\ ~w.maximized /\ Contains(f, SIZE) => SFields(new, SIZE) = WFields(w, SIZE)
       /\ ~w.maximized /\ Contains(f, POSITION) => <<new.x, new.y>> = WFields(w, POSITION)
       /\ <<new.prev_x, new.prev_y>> = <<old.prev_x, old.prev_y>>

\* restore_state under the flags: only flagged aspects of the window are set
\* or read, and no entry of the cache is changed; strictly, every property of an
\* aspect that is not flagged is unchanged; otherwise maximize() may also
\* move and resize the window
RestoreRule(label, strict) ==
    LET f == FlagsOfCall(label)
        w == WindowOfCall(label)
        after == windows'[label]
    IN /\ \A call \in CallsOn(label) : Contains(f, AspectOf(call))
       /\ \A a \in StateFlag :
              ~Contains(f, a) =>
                  \/ WFields(after, a) = WFields(w, a)
                  \/ ~strict /\ a \in {SIZE, POSITION} /\ "maximize" \in CallsOn(label)
       /\ \A other \in DOMAIN cache : cache'[other] = cache[other]
       /\ label \in DOMAIN cache =>
              /\ cache' = cache
              /\ cache[label] # DefaultState /\ Contains(f, DECORATIONS) =>
                     after.decorated = cache[label].decorated
              /\ cache[label] # DefaultState /\ Contains(f, FULLSCREEN) =>
                     after.fullscreen = cache[label].fullscreen
       /\ label \notin DOMAIN cache =>
              \A a \in StateFlag :
                  ~Contains(f, a) => SFields(cache'[label], a) = SFields(DefaultState, a)

\* a Moved event: the cached position changes only when POSITION is set,
\* and nothing else of the cache changes
MovedRule ==
    /\ DOMAIN cache' = DOMAIN cache
    /\ ~Contains(plugin[1].flags, POSITION) => cache' = cache
    /\ \A label \in DOMAIN cache :
           \A a \in StateFlag \ {POSITION} : SFields(cache'[label], a) = SFields(cache[label], a)

FlagsRule(strict) ==
    /\ \A label \in Labels :
           /\ ByClose(label) \/ BySave(label) \/ ByExit(label) => UpdateRule(label, strict)
           /\ ByCommand(label) \/ ByReady(label) => RestoreRule(label, strict)
    /\ last'.op \in {"Moved", "Maximized"} => MovedRule

C38_PrevIsPositionBeforeMaximize ==
    [][ \A label \in Labels :
          /\ ByClose(label)
          /\ windows[label].maximized
          /\ Contains(plugin[1].flags, POSITION) /\ Contains(plugin[1].flags, MAXIMIZED)
          => /\ cache'[label].maximized
             /\ Restored(cache'[label]) = windows[label].normal ]_vars

====
